---- MODULE Spec2Model ----
(***************************************************************************)
(* Model of mio-signals: the three Signals backends (kqueue, signalfd,     *)
(* pipe), the process-wide signal state they change, and the SignalSet     *)
(* bit-set they are constructed from.                                      *)
(*                                                                         *)
(* The kernel state of the process is one record `os`; the code of new(),  *)
(* receive() and drop() is written as operators from kernel state to       *)
(* kernel state, composed in the order of the source, and the actions      *)
(* assign the result.  Fault inputs (a system call returning -1) are       *)
(* parameters of these operators: Spec runs them without faults, SpecFault *)
(* with every outcome the code branches on, SpecTeardown with the failures *)
(* of drop.  SpecVocabulary runs the pure functions of the vocabulary      *)
(* (SignalSet, raw_signal, from_raw_signal) on every input, SpecIteration  *)
(* the iteration of a SignalSet, SpecSource the calls of event::Source,    *)
(* SpecDrain the drain loop under fair scheduling, SpecSteps new(), drop   *)
(* and signal_handler one system call at a time, SpecBurst bursts of       *)
(* signals that fill the pipe, SpecPair two instances over disjoint sets,  *)
(* SpecLifecycle the whole life of a value with signals sent after it.     *)
(***************************************************************************)
EXTENDS Integers, Sequences, FiniteSets, TLC

VARIABLES backend, os, table, inst, pre, trace, nsent, rpc, retries, nfaults, last,
          calc, run, peer

vars ==
  <<backend, os, table, inst, pre, trace, nsent, rpc, retries, nfaults, last, calc,
    run, peer>>

(* ------------------------------ bounds -------------------------------- *)

\* Signals sent to the process in one behaviour.
MaxSent == 2
\* Signals sent and receive() results recorded after a successful new().
MaxTrace == 5
\* The same where system calls may fail.
MaxFaultTrace == 3
\* Consecutive EINTR outcomes of one receive() call.
MaxRetry == 2
\* receive() calls of one behaviour that end on a failed or malformed system call.
MaxFaults == 1
\* The same where the calls of drop may fail.
MaxDropTrace == 2
\* Signals sent where new(), drop and signal_handler run call by call.
MaxArrivals == 3
\* Signals sent and receive() results recorded where the pipe can fill.
MaxBurstTrace == 6
\* next() calls of one iteration that return None.
MaxNones == 2
\* The native signal numbers given to from_raw_signal are -1..MaxRaw.
MaxRaw == 20
\* Records the pipe holds before a write fails with EAGAIN.
PipeCap == 2

(* ------------------------- signal vocabulary -------------------------- *)

Backends == {"kqueue", "signalfd", "pipe"}

\* enum Signal (lib.rs): the variants a SignalSet can hold.
Signal == {"Interrupt", "Quit", "Terminate"}

None == "None"

INTERRUPT == 1
QUIT == 2
TERMINATE == 4

SIGINT == 2
SIGQUIT == 3
SIGTERM == 15
SIGUSR1 == 10
SIGUSR2 == 12
SIGSTOP == 19

\* Signal numbers whose disposition the model tracks.
RawSigs == {SIGINT, SIGQUIT, SIGTERM}

RECURSIVE BitAnd(_, _)
BitAnd(a, b) ==
  IF a = 0 \/ b = 0 THEN 0
  ELSE (IF a % 2 = 1 /\ b % 2 = 1 THEN 1 ELSE 0) + 2 * BitAnd(a \div 2, b \div 2)

RECURSIVE BitOrU(_, _)
BitOrU(a, b) ==
  IF a = 0 THEN b
  ELSE IF b = 0 THEN a
  ELSE (IF a % 2 = 1 \/ b % 2 = 1 THEN 1 ELSE 0) + 2 * BitOrU(a \div 2, b \div 2)

\* u8::trailing_zeros
RECURSIVE trailing_zeros(_)
trailing_zeros(x) ==
  IF x = 0 THEN 8
  ELSE IF x % 2 = 1 THEN 0
  ELSE 1 + trailing_zeros(x \div 2)

\* u8::count_ones
RECURSIVE count_ones(_)
count_ones(x) == IF x = 0 THEN 0 ELSE (x % 2) + count_ones(x \div 2)

RECURSIVE Pow2(_)
Pow2(n) == IF n = 0 THEN 1 ELSE 2 * Pow2(n - 1)

\* SignalSet::all()
SignalSet_all == BitOrU(BitOrU(INTERRUPT, QUIT), TERMINATE)

\* Every value a SignalSet can have: a non-zero u8 with bits of `all` only.
SignalSets == {b \in 1..SignalSet_all : BitAnd(b, SignalSet_all) = b}

\* SignalSet::len
SignalSet_len(self) == count_ones(self)

\* From<Signal> giving Terminate the bits of Quit and Terminate.
SignalSet_from_wide(signal) ==
  CASE signal = "Interrupt" -> INTERRUPT
    [] signal = "Quit" -> QUIT
    [] signal = "Terminate" -> QUIT + TERMINATE

\* impl From<Signal> for SignalSet
SignalSet_from(signal) ==
  CASE signal = "Interrupt" -> INTERRUPT
    [] signal = "Quit" -> QUIT
    [] signal = "Terminate" -> TERMINATE

\* contains that asks for one common signal only.
SignalSet_contains_any(self, other) == BitAnd(self, other) # 0

\* SignalSet::contains, with `other` already converted to a SignalSet.
SignalSet_contains(self, other) == BitAnd(self, other) = other

\* BitOr with & for |.
SignalSet_bitor_and(self, rhs) == BitAnd(self, rhs)

\* BitOr that returns its left operand.
SignalSet_bitor_left(self, rhs) == self

\* impl BitOr for SignalSet
SignalSet_bitor(self, rhs) == BitOrU(self, rhs)

\* impl BitOr<Signal> for SignalSet
SignalSet_bitor_signal(self, rhs) == SignalSet_bitor(self, SignalSet_from(rhs))

\* impl BitOr for Signal
Signal_bitor(self, rhs) == SignalSet_bitor_signal(SignalSet_from(self), rhs)

\* impl BitOr<SignalSet> for Signal
Signal_bitor_set(self, rhs) == SignalSet_bitor_signal(rhs, self)

\* SignalSetIter::next that leaves the yielded signal in the set.
SignalSetIter_next_keep(it) ==
  LET n == trailing_zeros(it)
      item == CASE n = 0 -> "Interrupt"
                [] n = 1 -> "Quit"
                [] n = 2 -> "Terminate"
                [] OTHER -> None
  IN  [item |-> item, iter |-> it]

\* impl IntoIterator for SignalSet: the iterator over a copy of the integer.
SignalSet_into_iter(self) == self

\* impl ExactSizeIterator for SignalSetIter
SignalSetIter_len(it) == count_ones(it)

\* SignalSetIter::size_hint: (size, Some(size))
SignalSetIter_size_hint(it) == <<SignalSetIter_len(it), SignalSetIter_len(it)>>

\* SignalSetIter::next: the yielded item and the iterator afterwards.
SignalSetIter_next(it) ==
  LET n == trailing_zeros(it)
      item == CASE n = 0 -> "Interrupt"
                [] n = 1 -> "Quit"
                [] n = 2 -> "Terminate"
                [] OTHER -> None
  IN  [item |-> item,
       iter |-> IF item = None THEN it ELSE it - Pow2(n)]

\* `for signal in signals`: the signals in the order the iterator yields them.
RECURSIVE IterSeq(_)
IterSeq(it) ==
  LET r == SignalSetIter_next(it)
  IN  IF r.item = None THEN <<>> ELSE <<r.item>> \o IterSeq(r.iter)

\* The signals sys::raw_signal converts (the variants its match names).
SysSignal == {"Interrupt", "Quit", "Terminate", "User1", "User2"}

\* raw_signal giving Quit the number of Terminate.
raw_signal_same(signal) ==
  CASE signal = "Interrupt" -> SIGINT
    [] signal = "Quit" -> SIGTERM
    [] signal = "Terminate" -> SIGTERM
    [] signal = "User1" -> SIGUSR1
    [] signal = "User2" -> SIGUSR2

\* sys::raw_signal
raw_signal(signal) ==
  CASE signal = "Interrupt" -> SIGINT
    [] signal = "Quit" -> SIGQUIT
    [] signal = "Terminate" -> SIGTERM
    [] signal = "User1" -> SIGUSR1
    [] signal = "User2" -> SIGUSR2

\* from_raw_signal with the arms of SIGUSR1 and SIGUSR2 exchanged.
from_raw_signal_swapped(raw) ==
  CASE raw = SIGINT -> "Interrupt"
    [] raw = SIGQUIT -> "Quit"
    [] raw = SIGTERM -> "Terminate"
    [] raw = SIGUSR1 -> "User2"
    [] raw = SIGUSR2 -> "User1"
    [] OTHER -> None

\* from_raw_signal whose last arm returns a signal.
from_raw_signal_default(raw) ==
  CASE raw = SIGINT -> "Interrupt"
    [] raw = SIGQUIT -> "Quit"
    [] raw = SIGTERM -> "Terminate"
    [] raw = SIGUSR1 -> "User1"
    [] raw = SIGUSR2 -> "User2"
    [] OTHER -> "Interrupt"

\* sys::from_raw_signal
from_raw_signal(raw) ==
  CASE raw = SIGINT -> "Interrupt"
    [] raw = SIGQUIT -> "Quit"
    [] raw = SIGTERM -> "Terminate"
    [] raw = SIGUSR1 -> "User1"
    [] raw = SIGUSR2 -> "User2"
    [] OTHER -> None

\* The native numbers of the members of a SignalSet.
RawSet(signals) == {raw_signal(IterSeq(signals)[i]) : i \in 1..Len(IterSeq(signals))}

(* --------------------------- kernel model ----------------------------- *)

Handlers == {"SIG_DFL", "SIG_IGN", "other", "signal_handler"}

\* The lowest descriptor number not in use (0, 1 and 2 are the standard streams).
alloc(fds) == CHOOSE n \in 3..(3 + Cardinality(fds)) :
                n \notin fds /\ \A m \in 3..(n - 1) : m \in fds

\* libc::close returning ret (0, or -1 for EINTR or EIO): the descriptor is
\* released whatever close returns (on the supported platforms a close that
\* reports EINTR or EIO has still released the number); closing a descriptor
\* that is not open (EBADF) changes nothing.  closeLog keeps every call.
close(w, fd, ret) ==
  IF fd \notin w.fds THEN [w EXCEPT !.closeLog = Append(@, <<fd, ret>>)]
  ELSE [w EXCEPT !.closeLog = Append(@, <<fd, ret>>),
                 !.fds = @ \ {fd},
                 !.kqFilters = IF fd = w.kqFd THEN {} ELSE @,
                 !.kqEvents = IF fd = w.kqFd THEN {} ELSE @,
                 !.kqFd = IF fd = w.kqFd THEN -1 ELSE @,
                 !.sfdMask = IF fd = w.sfdFd THEN {} ELSE @,
                 !.sfdFd = IF fd = w.sfdFd THEN -1 ELSE @,
                 !.pipeW = IF fd = w.pipeW THEN -1 ELSE @,
                 !.pipeR = IF fd = w.pipeR THEN -1 ELSE @,
                 !.pipeBuf = IF fd = w.pipeR THEN <<>> ELSE @,
                 !.registry = {e \in @ : e[1] # fd}]

\* libc::write(fd, bytes, 4) on the write end of the non-blocking pipe: the
\* record is queued unless the pipe is full or fd is not the open write end.
k_write(w, fd, raw) ==
  IF fd # -1 /\ fd = w.pipeW /\ w.pipeR # -1 /\ Len(w.pipeBuf) < PipeCap
  THEN [w EXCEPT !.pipeBuf = Append(@, raw)]
  ELSE w

\* signal_handler with the test of the descriptor inverted.
signal_handler_inverted(w, tbl, raw) ==
  LET fd == IF raw \in DOMAIN tbl THEN tbl[raw] ELSE -1
  IN  IF fd # -1 THEN w ELSE k_write(w, fd, raw)

\* pipe.rs signal_handler: one load of the table entry, at most one write.
signal_handler(w, tbl, raw) ==
  LET fd == IF raw \in DOMAIN tbl THEN tbl[raw] ELSE -1
  IN  IF fd = -1 THEN w ELSE k_write(w, fd, raw)

\* What the kernel does with an unblocked signal, by its handler.
k_run(w, tbl, raw) ==
  CASE w.handler[raw] = "SIG_DFL" ->
         IF w.terminated THEN w
         ELSE [w EXCEPT !.terminated = TRUE, !.killedBy = raw]
    [] w.handler[raw] = "SIG_IGN" -> w
    [] w.handler[raw] = "other" -> w
    [] w.handler[raw] = "signal_handler" -> signal_handler(w, tbl, raw)

\* kill(pid, raw) on this process: an EVFILT_SIGNAL filter records every
\* delivery attempt; a blocked signal stays pending; otherwise the handler runs.
k_deliver(w, tbl, raw) ==
  LET w1 == IF raw \in w.kqFilters THEN [w EXCEPT !.kqEvents = @ \cup {raw}] ELSE w
  IN  IF raw \in w1.blocked
      THEN [w1 EXCEPT !.pending = @ \cup {raw}]
      ELSE k_run(w1, tbl, raw)

\* libc::sigaction(raw, &action, null): install the handler; a pending signal
\* whose action becomes SIG_IGN is discarded.
k_sigaction(w, raw, action) ==
  [w EXCEPT !.handler[raw] = action,
            !.pending = IF action = "SIG_IGN" THEN @ \ {raw} ELSE @]

Min(S) == CHOOSE x \in S : \A y \in S : x <= y

\* The pending signals of `set` are delivered, lowest number first.
RECURSIVE k_flush(_, _, _)
k_flush(w, tbl, set) ==
  IF set = {} THEN w
  ELSE LET n == Min(set)
       IN  k_flush(k_run([w EXCEPT !.pending = @ \ {n}], tbl, n), tbl, set \ {n})

\* pthread_sigmask(how, set, null)
k_sigmask(w, tbl, how, set) ==
  IF how = "SIG_BLOCK" THEN [w EXCEPT !.blocked = @ \cup set]
  ELSE LET w1 == [w EXCEPT !.blocked = @ \ set]
       IN  k_flush(w1, tbl, w1.pending \cap set)

\* The tokens the program registers event sources with.
Tokens == {0, 1}

\* No call of the registry yet.
NoRegistryCall == [op |-> "", fd |-> -1, token |-> -1, res |-> ""]

\* The kernel state of the process before new(): `registry` is the set of
\* <<descriptor, token>> registered with the program's mio::Poll and
\* `regLast` the latest operation its Registry was asked for.
OsInit(h, b) ==
  [handler |-> h, blocked |-> b, pending |-> {}, fds |-> {},
   kqFd |-> -1, kqFilters |-> {}, kqEvents |-> {},
   sfdFd |-> -1, sfdMask |-> {}, sfdNonblock |-> FALSE,
   pipeR |-> -1, pipeW |-> -1, pipeBuf |-> <<>>,
   terminated |-> FALSE, killedBy |-> 0, closeLog |-> <<>>,
   kqInterrupted |-> FALSE,
   registry |-> {}, regLast |-> NoRegistryCall]

\* SIGINT_FD, SIGTERM_FD, SIGQUIT_FD: -1 when not set.
TableInit == [raw \in RawSigs |-> -1]

(* ----------------------------- fault inputs --------------------------- *)

\* Which system calls of one new() or drop() call fail.  install and restore
\* name the failing call of the sigaction loop (k >= 1: the k-th
\* libc::sigaction; -1: sigemptyset; 0: none); for pthread_sigmask any value
\* other than 0 is a failure.  close: libc::close in drop returns -1.
NoFault == [create |-> FALSE, sigset |-> FALSE, register |-> "ok",
            install |-> 0, restore |-> 0, close |-> FALSE]

\* What libc::close returns in a drop with the faults f.
CloseRet(f) == IF f.close THEN -1 ELSE 0

FailPoints == {-1, 0, 1, 2, 3}

\* The fault inputs of one new() call on backend b: the first step that
\* fails and, when a Signals value is then dropped, the failure of its drop.
Faults(b) ==
  {[NoFault EXCEPT !.create = TRUE]}
  \cup (IF b = "signalfd" THEN {[NoFault EXCEPT !.sigset = TRUE]} ELSE {})
  \cup (IF b = "kqueue"
        THEN {[NoFault EXCEPT !.register = "err", !.restore = r] : r \in FailPoints}
        ELSE {})
  \cup {[NoFault EXCEPT !.install = k, !.restore = r] :
          k \in FailPoints \ {0}, r \in FailPoints}

\* The same where a Signals value is dropped and the close of its drop fails.
CloseFaults(b) ==
  {[f EXCEPT !.close = TRUE] : f \in {g \in Faults(b) : ~g.create /\ ~g.sigset}}

\* The registering kevent call of kqueue's new() returns -1 with EINTR, and
\* the ignore step that follows succeeds or fails at its first sigaction.
InterruptFaults ==
  {[NoFault EXCEPT !.register = "EINTR", !.install = k] : k \in {0, 1}}

\* No instance.  `signals` is the SignalSet given to new(); `sigset` is the
\* libc::sigset_t the signalfd backend retains; `err` is the step whose error
\* new() returned ("" when it returned Ok).
NoInst == [phase |-> "Uninit", fd |-> -1, signals |-> 0, sigset |-> {}, err |-> ""]

(* --------------------- sigaction loop (kqueue, pipe) ------------------ *)

\* for signal in signals { libc::sigaction(raw_signal(signal), &action, null) }
\* returning at the first call that fails.
RECURSIVE sigaction_loop(_, _, _, _, _)
sigaction_loop(w, seq, i, action, failAt) ==
  IF i > Len(seq) THEN [ok |-> TRUE, w |-> w]
  ELSE IF i = failAt THEN [ok |-> FALSE, w |-> w]
  ELSE sigaction_loop(k_sigaction(w, raw_signal(seq[i]), action), seq, i + 1,
                      action, failAt)

\* kqueue.rs / pipe.rs sigaction: empty_sigset()? then the loop.
sigaction(w, signals, action, failAt) ==
  IF failAt = -1 THEN [ok |-> FALSE, w |-> w]
  ELSE sigaction_loop(w, IterSeq(signals), 1, action, failAt)

(* ------------------------------- kqueue ------------------------------- *)

new_kqueue(w, f) ==
  IF f.create THEN [ok |-> FALSE, w |-> w, fd |-> -1]
  ELSE LET kq == alloc(w.fds)
       IN  [ok |-> TRUE, fd |-> kq,
            w |-> [w EXCEPT !.fds = @ \cup {kq}, !.kqFd = kq]]

\* register_signals for which EINTR is an error like any other.
register_signals_strict(w, kq, signals, f) ==
  IF f.register # "ok" THEN [ok |-> FALSE, w |-> w]
  ELSE [ok |-> TRUE, w |-> [w EXCEPT !.kqFilters = @ \cup RawSet(signals)]]

\* One kevent call with an EV_ADD change per signal; EINTR counts as success
\* ("all changes in the changelist have been applied").  kqInterrupted keeps
\* that the call was interrupted.
register_signals(w, kq, signals, f) ==
  IF f.register = "err" THEN [ok |-> FALSE, w |-> w]
  ELSE [ok |-> TRUE,
        w |-> [w EXCEPT !.kqFilters = @ \cup RawSet(signals),
                        !.kqInterrupted = (f.register = "EINTR")]]

\* ignore_signals that installs nothing.
ignore_signals_none(w, signals, failAt) == [ok |-> failAt = 0, w |-> w]

ignore_signals(w, signals, failAt) == sigaction(w, signals, "SIG_IGN", failAt)

unignore_signals(w, signals, failAt) == sigaction(w, signals, "SIG_DFL", failAt)

\* A drop that does not close the queue.
kq_drop_noclose(w, self, f) == unignore_signals(w, self.signals, f.restore).w

\* A drop that only closes the queue.
kq_drop_closeonly(w, self, f) == close(w, self.fd, CloseRet(f))

\* A drop that returns at the first error.
kq_drop_early(w, self, f) ==
  LET r == unignore_signals(w, self.signals, f.restore)
  IN  IF r.ok THEN close(r.w, self.fd, CloseRet(f)) ELSE r.w

\* impl Drop for kqueue::Signals
kq_drop(w, self, f) ==
  close(unignore_signals(w, self.signals, f.restore).w, self.fd, CloseRet(f))

\* A new() that forgets the value it built when a later step fails.
kq_new_forget(w, tbl, signals, f) ==
  LET r1 == new_kqueue(w, f)
      self == [phase |-> "Active", fd |-> r1.fd, signals |-> signals, sigset |-> {},
               err |-> ""]
      r2 == register_signals(r1.w, r1.fd, signals, f)
      r3 == ignore_signals(r2.w, signals, f.install)
  IN  IF ~r1.ok
        THEN [ok |-> FALSE, w |-> w, tbl |-> tbl,
              self |-> [NoInst EXCEPT !.err = "create"]]
      ELSE IF ~r2.ok
        THEN [ok |-> FALSE, w |-> r2.w, tbl |-> tbl,
              self |-> [self EXCEPT !.err = "register"]]
      ELSE IF ~r3.ok
        THEN [ok |-> FALSE, w |-> r3.w, tbl |-> tbl,
              self |-> [self EXCEPT !.err = "install"]]
      ELSE [ok |-> TRUE, w |-> r3.w, tbl |-> tbl, self |-> self]

\* kqueue::Signals::new: a Signals value that exists when a later step fails
\* is dropped before the error is returned (`self` is then the dropped value).
kq_new(w, tbl, signals, f) ==
  LET r1 == new_kqueue(w, f)
      self == [phase |-> "Active", fd |-> r1.fd, signals |-> signals, sigset |-> {},
               err |-> ""]
      r2 == register_signals(r1.w, r1.fd, signals, f)
      r3 == ignore_signals(r2.w, signals, f.install)
  IN  IF ~r1.ok
        THEN [ok |-> FALSE, w |-> w, tbl |-> tbl,
              self |-> [NoInst EXCEPT !.err = "create"]]
      ELSE IF ~r2.ok
        THEN [ok |-> FALSE, w |-> kq_drop(r2.w, self, f), tbl |-> tbl,
              self |-> [self EXCEPT !.err = "register"]]
      ELSE IF ~r3.ok
        THEN [ok |-> FALSE, w |-> kq_drop(r3.w, self, f), tbl |-> tbl,
              self |-> [self EXCEPT !.err = "install"]]
      ELSE [ok |-> TRUE, w |-> r3.w, tbl |-> tbl, self |-> self]

(* ------------------------------ signalfd ------------------------------ *)

\* create_sigset that fills the set (sigfillset for sigemptyset).
create_sigset_all(signals, f) ==
  IF f.sigset THEN [ok |-> FALSE, set |-> {}] ELSE [ok |-> TRUE, set |-> RawSigs]

\* sigemptyset, then sigaddset(raw_signal(signal)) for every signal.
create_sigset(signals, f) ==
  IF f.sigset THEN [ok |-> FALSE, set |-> {}]
  ELSE [ok |-> TRUE, set |-> RawSet(signals)]

\* new_signalfd without SFD_NONBLOCK.
new_signalfd_blocking(w, set, f) ==
  IF f.create THEN [ok |-> FALSE, w |-> w, fd |-> -1]
  ELSE LET fd == alloc(w.fds)
       IN  [ok |-> TRUE, fd |-> fd,
            w |-> [w EXCEPT !.fds = @ \cup {fd}, !.sfdFd = fd, !.sfdMask = set,
                            !.sfdNonblock = FALSE]]

\* signalfd(-1, set, SFD_CLOEXEC | SFD_NONBLOCK)
new_signalfd(w, set, f) ==
  IF f.create THEN [ok |-> FALSE, w |-> w, fd |-> -1]
  ELSE LET fd == alloc(w.fds)
       IN  [ok |-> TRUE, fd |-> fd,
            w |-> [w EXCEPT !.fds = @ \cup {fd}, !.sfdFd = fd, !.sfdMask = set,
                            !.sfdNonblock = TRUE]]

sigprocmask(w, tbl, how, set, failAt) ==
  IF failAt # 0 THEN [ok |-> FALSE, w |-> w]
  ELSE [ok |-> TRUE, w |-> k_sigmask(w, tbl, how, set)]

block_signals(w, tbl, set, failAt) == sigprocmask(w, tbl, "SIG_BLOCK", set, failAt)

\* An unblock of every signal.
unblock_signals_every(w, tbl, set, failAt) ==
  sigprocmask(w, tbl, "SIG_UNBLOCK", RawSigs, failAt)

unblock_signals(w, tbl, set, failAt) == sigprocmask(w, tbl, "SIG_UNBLOCK", set, failAt)

\* impl Drop for signalfd::Signals
sfd_drop(w, tbl, self, f) ==
  close(unblock_signals(w, tbl, self.sigset, f.restore).w, self.fd, CloseRet(f))

\* signalfd::Signals::new
sfd_new(w, tbl, signals, f) ==
  LET r1 == create_sigset(signals, f)
      r2 == new_signalfd(w, r1.set, f)
      self == [phase |-> "Active", fd |-> r2.fd, signals |-> signals,
               sigset |-> r1.set, err |-> ""]
      r3 == block_signals(r2.w, tbl, r1.set, f.install)
  IN  IF ~r1.ok
        THEN [ok |-> FALSE, w |-> w, tbl |-> tbl,
              self |-> [NoInst EXCEPT !.err = "sigset"]]
      ELSE IF ~r2.ok
        THEN [ok |-> FALSE, w |-> w, tbl |-> tbl,
              self |-> [NoInst EXCEPT !.err = "create"]]
      ELSE IF ~r3.ok
        THEN [ok |-> FALSE, w |-> sfd_drop(r3.w, tbl, self, f), tbl |-> tbl,
              self |-> [self EXCEPT !.err = "install"]]
      ELSE [ok |-> TRUE, w |-> r3.w, tbl |-> tbl, self |-> self]

(* -------------------------------- pipe -------------------------------- *)

\* mio_pipe::new_pipe: a non-blocking pipe, (sender, receiver).
new_pipe(w, f) ==
  IF f.create THEN [ok |-> FALSE, w |-> w, send |-> -1, recv |-> -1]
  ELSE LET r == alloc(w.fds)
           s == alloc(w.fds \cup {r})
       IN  [ok |-> TRUE, send |-> s, recv |-> r,
            w |-> [w EXCEPT !.fds = @ \cup {r, s}, !.pipeR = r, !.pipeW = s,
                            !.pipeBuf = <<>>]]

\* for signal in signals { signal_fd.store(fd) }
RECURSIVE store_loop(_, _, _, _)
store_loop(tbl, seq, i, fd) ==
  IF i > Len(seq) THEN tbl
  ELSE store_loop([tbl EXCEPT ![raw_signal(seq[i])] = fd], seq, i + 1, fd)

set_signal_handler(w, signals, failAt) ==
  sigaction(w, signals, "signal_handler", failAt)

\* A reset of the handler of every signal.
reset_signal_handler_all(w, signals, failAt) ==
  sigaction(w, SignalSet_all, "SIG_DFL", failAt)

reset_signal_handler(w, signals, failAt) == sigaction(w, signals, "SIG_DFL", failAt)

\* for signal in self.signals { recv_fd = signal_fd.swap(-1); ... }: the table
\* afterwards, the descriptor to close and whether debug_assert_eq held.
RECURSIVE swap_loop(_, _, _, _, _)
swap_loop(tbl, seq, i, fd, holds) ==
  IF i > Len(seq) THEN [tbl |-> tbl, fd |-> fd, holds |-> holds]
  ELSE LET recv_fd == tbl[raw_signal(seq[i])]
           tbl1 == [tbl EXCEPT ![raw_signal(seq[i])] = -1]
       IN  IF fd = -1 THEN swap_loop(tbl1, seq, i + 1, recv_fd, holds)
           ELSE swap_loop(tbl1, seq, i + 1, fd, holds /\ fd = recv_fd)

\* impl Drop for pipe::Signals, then the drop of its field `recv`.
pipe_drop(w, tbl, self, f) ==
  LET r1 == reset_signal_handler(w, self.signals, f.restore)
      r2 == swap_loop(tbl, IterSeq(self.signals), 1, -1, TRUE)
  IN  [w |-> close(close(r1.w, r2.fd, CloseRet(f)), self.fd, 0),
       tbl |-> r2.tbl, holds |-> r2.holds]

\* pipe::Signals::new
pipe_new(w, tbl, signals, f) ==
  LET r1 == new_pipe(w, f)
      self == [phase |-> "Active", fd |-> r1.recv, signals |-> signals, sigset |-> {},
               err |-> ""]
      tbl1 == store_loop(tbl, IterSeq(signals), 1, r1.send)
      r2 == set_signal_handler(r1.w, signals, f.install)
      d == pipe_drop(r2.w, tbl1, self, f)
  IN  IF ~r1.ok
        THEN [ok |-> FALSE, w |-> w, tbl |-> tbl,
              self |-> [NoInst EXCEPT !.err = "create"]]
      ELSE IF ~r2.ok
        THEN [ok |-> FALSE, w |-> d.w, tbl |-> d.tbl,
              self |-> [self EXCEPT !.err = "install"]]
      ELSE [ok |-> TRUE, w |-> r2.w, tbl |-> tbl1, self |-> self]

(* ------------------------------ the facade ---------------------------- *)

\* Signals::new (lib.rs) over the backend the build selected.
Signals_new(b, w, tbl, signals, f) ==
  CASE b = "kqueue" -> kq_new(w, tbl, signals, f)
    [] b = "signalfd" -> sfd_new(w, tbl, signals, f)
    [] b = "pipe" -> pipe_new(w, tbl, signals, f)

\* The drop of a Signals value: the kernel state and the table afterwards.
Signals_drop(b, w, tbl, self, f) ==
  CASE b = "kqueue" -> [w |-> kq_drop(w, self, f), tbl |-> tbl]
    [] b = "signalfd" -> [w |-> sfd_drop(w, tbl, self, f), tbl |-> tbl]
    [] b = "pipe" -> LET d == pipe_drop(w, tbl, self, f)
                     IN  [w |-> d.w, tbl |-> d.tbl]

(* ------------------- new() and drop, call by call --------------------- *)

\* One system call, or one atomic access of the table, of new() or drop.
StepOf(k, raw, action) == [k |-> k, raw |-> raw, action |-> action]

\* for raw_signal in signals { libc::sigaction(raw_signal, &action, null) }
sigaction_steps(signals, action) ==
  [i \in 1..Len(IterSeq(signals)) |->
     StepOf("sigaction", raw_signal(IterSeq(signals)[i]), action)]

\* Stores that publish the descriptor for the first signal only.
store_steps_first(signals) ==
  <<StepOf("store", raw_signal(IterSeq(signals)[1]), "")>>

\* for signal in signals { signal_fd.store(fd) }
store_steps(signals) ==
  [i \in 1..Len(IterSeq(signals)) |-> StepOf("store", raw_signal(IterSeq(signals)[i]), "")]

\* for signal in self.signals { signal_fd.swap(-1) .. }
swap_steps(signals) ==
  [i \in 1..Len(IterSeq(signals)) |-> StepOf("swap", raw_signal(IterSeq(signals)[i]), "")]

\* A new() that installs the handlers before it publishes the descriptor.
pipe_new_steps_installfirst(signals) ==
  <<StepOf("new_pipe", 0, "")>> \o sigaction_steps(signals, "signal_handler")
    \o store_steps(signals)

\* pipe::Signals::new: new_pipe, the stores, set_signal_handler.
pipe_new_steps(signals) ==
  <<StepOf("new_pipe", 0, "")>> \o store_steps(signals)
    \o sigaction_steps(signals, "signal_handler")

\* impl Drop for kqueue::Signals: unignore_signals, close(self.kq).
kq_drop_steps(self) ==
  sigaction_steps(self.signals, "SIG_DFL") \o <<StepOf("close_self", 0, "")>>

\* impl Drop for signalfd::Signals: unblock_signals, close(self.fd).
sfd_drop_steps(self) == <<StepOf("unblock", 0, ""), StepOf("close_self", 0, "")>>

\* A drop that closes the write end first.
pipe_drop_steps_closefirst(self) ==
  <<StepOf("swap", raw_signal(IterSeq(self.signals)[1]), ""), StepOf("close_send", 0, "")>>
    \o sigaction_steps(self.signals, "SIG_DFL") \o swap_steps(self.signals)
    \o <<StepOf("close_self", 0, "")>>

\* impl Drop for pipe::Signals: reset_signal_handler, the swaps, close(fd),
\* then the drop of the field `recv`.
pipe_drop_steps(self) ==
  sigaction_steps(self.signals, "SIG_DFL") \o swap_steps(self.signals)
    \o <<StepOf("close_send", 0, ""), StepOf("close_self", 0, "")>>

drop_steps(b, self) ==
  CASE b = "kqueue" -> kq_drop_steps(self)
    [] b = "signalfd" -> sfd_drop_steps(self)
    [] b = "pipe" -> pipe_drop_steps(self)

\* The steps left when a libc::sigaction has failed: the function returns,
\* so the rest of its loop is not run.
after_failure(todo) ==
  LET n == Cardinality({i \in DOMAIN todo : \A j \in 1..i : todo[j].k = "sigaction"})
  IN  SubSeq(todo, n + 1, Len(todo))

\* The effect of the step st on the kernel state w, the table tbl, the value
\* self and the locals loc (fd, holds).
do_step(w, tbl, self, loc, st) ==
  LET same == [w |-> w, tbl |-> tbl, self |-> self, fd |-> loc.fd, holds |-> loc.holds]
  IN  CASE st.k = "new_pipe" ->
             LET r == new_pipe(w, NoFault)
             IN  [same EXCEPT !.w = r.w, !.fd = r.send, !.self.fd = r.recv]
        [] st.k = "store" -> [same EXCEPT !.tbl[st.raw] = loc.fd]
        [] st.k = "sigaction" -> [same EXCEPT !.w = k_sigaction(w, st.raw, st.action)]
        [] st.k = "swap" ->
             LET recv_fd == tbl[st.raw]
             IN  [same EXCEPT !.tbl[st.raw] = -1,
                              !.fd = IF loc.fd = -1 THEN recv_fd ELSE loc.fd,
                              !.holds = loc.holds /\ (loc.fd = -1 \/ loc.fd = recv_fd)]
        [] st.k = "unblock" -> [same EXCEPT !.w = unblock_signals(w, tbl, self.sigset, 0).w]
        [] st.k = "close_send" -> [same EXCEPT !.w = close(w, loc.fd, 0)]
        [] st.k = "close_self" -> [same EXCEPT !.w = close(w, self.fd, 0)]

\* signal_handler: the load of the table entry of the signal.
handler_load(tbl, raw) == IF raw \in DOMAIN tbl THEN tbl[raw] ELSE -1

\* A handler that writes the record twice.
handler_write_twice(w, h) == k_write(k_write(w, h.fd, h.raw), h.fd, h.raw)

\* signal_handler: the write to the descriptor loaded, its result dropped.
handler_write(w, h) == k_write(w, h.fd, h.raw)

(* ---------------------------- event::Source -------------------------- *)

SourceOps == {"register", "reregister", "deregister"}

\* SourceFd(&fd).register / reregister / deregister: the operation `op` of
\* the Registry on the descriptor fd, whose result `res` is the
\* registry's; deregister has no token (-1).
SourceFd_call(w, op, fd, token, res) ==
  [res |-> res,
   w |-> [w EXCEPT !.regLast = [op |-> op, fd |-> fd, token |-> token, res |-> res],
                   !.registry =
                      IF res # "Ok" THEN @
                      ELSE IF op = "deregister" THEN {e \in @ : e[1] # fd}
                      ELSE {e \in @ : e[1] # fd} \cup {<<fd, token>>}]]

\* event::Source for kqueue::Signals: SourceFd(&self.kq)
kq_source(w, self, op, token, res) == SourceFd_call(w, op, self.fd, token, res)

\* event::Source for signalfd::Signals: SourceFd(&self.fd)
sfd_source(w, self, op, token, res) == SourceFd_call(w, op, self.fd, token, res)

\* event::Source for pipe::Signals: self.recv, the read end
pipe_source(w, self, op, token, res) == SourceFd_call(w, op, self.fd, token, res)

\* A forward that hides the registry's error.
Signals_source_ok(b, w, self, op, token, res) ==
  [SourceFd_call(w, op, self.fd, token, res) EXCEPT !.res = "Ok"]

\* event::Source for Signals (lib.rs): self.sys.register(..) and so on.
Signals_source(b, w, self, op, token, res) ==
  CASE b = "kqueue" -> kq_source(w, self, op, token, res)
    [] b = "signalfd" -> sfd_source(w, self, op, token, res)
    [] b = "pipe" -> pipe_source(w, self, op, token, res)

(* ------------------------------ receive ------------------------------- *)

\* size_of::<libc::signalfd_siginfo>()
INFO_SIZE == 128
\* size_of::<SignalBytes>()
SIGNAL_SIZE == 4

\* The outcome of the system call receive() makes: its return value n, errno
\* when n = -1, the signal number of the record or event, and `blocks` when
\* the call does not return because nothing is pending.
Outcome(n, errno, signo) == [n |-> n, errno |-> errno, signo |-> signo, blocks |-> FALSE]

Blocks == [n |-> 0, errno |-> "", signo |-> 0, blocks |-> TRUE]

\* kevent(kq, null, 0, &event, 1, timeout): one pending event is taken off
\* the queue; with none pending a zero timeout returns 0 at once and a null
\* timeout waits.
k_kevent(w, timeout) ==
  IF w.kqEvents # {}
  THEN {[o |-> Outcome(1, "", e), w |-> [w EXCEPT !.kqEvents = @ \ {e}]] :
          e \in w.kqEvents}
  ELSE IF timeout = "zero" THEN {[o |-> Outcome(0, "", 0), w |-> w]}
  ELSE {[o |-> Blocks, w |-> w]}

\* read(2) on the signalfd: one pending signal of its mask is dequeued; with
\* none pending the read fails with EAGAIN if the descriptor is non-blocking
\* and waits otherwise.
k_read_signalfd(w) ==
  IF w.pending \cap w.sfdMask # {}
  THEN {[o |-> Outcome(INFO_SIZE, "", e), w |-> [w EXCEPT !.pending = @ \ {e}]] :
          e \in w.pending \cap w.sfdMask}
  ELSE IF w.sfdNonblock THEN {[o |-> Outcome(-1, "EAGAIN", 0), w |-> w]}
  ELSE {[o |-> Blocks, w |-> w]}

\* Receiver::read on the non-blocking read end: the oldest record, or EAGAIN.
k_read_pipe(w) ==
  IF w.pipeBuf # <<>>
  THEN {[o |-> Outcome(SIGNAL_SIZE, "", Head(w.pipeBuf)),
         w |-> [w EXCEPT !.pipeBuf = Tail(@)]]}
  ELSE {[o |-> Outcome(-1, "EAGAIN", 0), w |-> w]}

\* The system call of one pass through receive().
k_receive_call(b, w) ==
  CASE b = "kqueue" -> k_kevent(w, "zero")
    [] b = "signalfd" -> k_read_signalfd(w)
    [] b = "pipe" -> k_read_pipe(w)

\* kqueue::Signals::receive: the match on n_events.
\* A receive that reports an error for the event it has taken.
kq_receive_taken(o) ==
  CASE o.n = -1 -> "Err_" \o o.errno
    [] o.n = 0 -> None
    [] o.n = 1 -> "Err_EIO"
    [] OTHER -> "Panic"

kq_receive(o) ==
  CASE o.n = -1 -> "Err_" \o o.errno
    [] o.n = 0 -> None
    [] o.n = 1 -> from_raw_signal(o.signo)
    [] OTHER -> "Panic"

\* A receive that reads again when the read would block.
sfd_receive_spin(o) ==
  CASE o.n = -1 /\ o.errno \in {"EAGAIN", "EINTR"} -> "continue"
    [] o.n = -1 /\ o.errno \notin {"EAGAIN", "EINTR"} -> "Err_" \o o.errno
    [] o.n = INFO_SIZE -> from_raw_signal(o.signo)
    [] OTHER -> "Panic"

\* signalfd::Signals::receive: the match on the result of read.
sfd_receive(o) ==
  CASE o.n = -1 /\ o.errno = "EAGAIN" -> None
    [] o.n = -1 /\ o.errno = "EINTR" -> "continue"
    [] o.n = -1 /\ o.errno \notin {"EAGAIN", "EINTR"} -> "Err_" \o o.errno
    [] o.n = INFO_SIZE -> from_raw_signal(o.signo)
    [] OTHER -> "Panic"

\* A receive that takes a short read for an empty pipe.
pipe_receive_lenient(o) ==
  CASE o.n = SIGNAL_SIZE -> from_raw_signal(o.signo)
    [] o.n >= 0 /\ o.n # SIGNAL_SIZE -> None
    [] o.n = -1 /\ o.errno = "EAGAIN" -> None
    [] o.n = -1 /\ o.errno = "EINTR" -> "continue"
    [] OTHER -> "Err_" \o o.errno

\* pipe::Signals::receive: the match on the result of read.
pipe_receive(o) ==
  CASE o.n = SIGNAL_SIZE -> from_raw_signal(o.signo)
    [] o.n >= 0 /\ o.n # SIGNAL_SIZE -> "Panic"
    [] o.n = -1 /\ o.errno = "EAGAIN" -> None
    [] o.n = -1 /\ o.errno = "EINTR" -> "continue"
    [] OTHER -> "Err_" \o o.errno

\* Signals::receive (lib.rs): what one pass returns, "continue" for a retry.
Signals_receive(b, o) ==
  CASE b = "kqueue" -> kq_receive(o)
    [] b = "signalfd" -> sfd_receive(o)
    [] b = "pipe" -> pipe_receive(o)

\* Outcomes the kernel gives when a call fails or breaks the record format:
\* EINTR, another error, a wrong size or count, an undecodable signal number.
FaultOutcomes(b) ==
  {Outcome(-1, "EINTR", 0), Outcome(-1, "EIO", 0),
   Outcome(2, "", 0),
   Outcome(IF b = "kqueue" THEN 1 ELSE IF b = "signalfd" THEN INFO_SIZE
           ELSE SIGNAL_SIZE, "", SIGSTOP)}

(* ------------------------------ actions ------------------------------- *)

Snapshot(w) == [handler |-> w.handler, blocked |-> w.blocked]

\* The dispositions the process may have before new(): every signal default
\* and unblocked, or some signals ignored, or handled by a handler of the
\* program, or blocked.
PreDispositions ==
  {[handler |-> [raw \in RawSigs |-> IF raw \in P THEN h ELSE "SIG_DFL"],
    blocked |-> {}] : P \in {{}, {SIGINT}, RawSigs}, h \in {"SIG_IGN", "other"}}
  \cup {[handler |-> [raw \in RawSigs |-> "SIG_DFL"], blocked |-> P] :
          P \in {{SIGINT}, RawSigs}}

\* The same with at most SIGINT not default.
FaultPreDispositions ==
  {d \in PreDispositions :
     /\ d.blocked \subseteq {SIGINT}
     /\ \A raw \in RawSigs \ {SIGINT} : d.handler[raw] = "SIG_DFL"}

\* No call of new() or drop in progress and no signal_handler running: `op`
\* is the call in progress, `todo` the steps it has still to make, `fd` its
\* local variable fd, `holds` whether every debug_assert_eq! so far held,
\* `logged` whether drop has logged "error resetting signal handler", and
\* `hs` the invocations of signal_handler that have loaded a descriptor and
\* not yet written to it.
NoRun == [op |-> "none", todo |-> <<>>, fd |-> -1, holds |-> TRUE, logged |-> FALSE,
          hs |-> <<>>]

\* The fields of the kernel state that belong to one instance's kernel
\* object (its queue, signalfd or pipe); the others are the process's.
ObjOf(w) ==
  [kqFd |-> w.kqFd, kqFilters |-> w.kqFilters, kqEvents |-> w.kqEvents,
   kqInterrupted |-> w.kqInterrupted,
   sfdFd |-> w.sfdFd, sfdMask |-> w.sfdMask, sfdNonblock |-> w.sfdNonblock,
   pipeR |-> w.pipeR, pipeW |-> w.pipeW, pipeBuf |-> w.pipeBuf]

\* The kernel state as the instance owning the object obj works on it.
View(w, obj) ==
  [w EXCEPT !.kqFd = obj.kqFd, !.kqFilters = obj.kqFilters, !.kqEvents = obj.kqEvents,
            !.kqInterrupted = obj.kqInterrupted,
            !.sfdFd = obj.sfdFd, !.sfdMask = obj.sfdMask,
            !.sfdNonblock = obj.sfdNonblock,
            !.pipeR = obj.pipeR, !.pipeW = obj.pipeW, !.pipeBuf = obj.pipeBuf]

\* No second instance: `inst` is the second Signals value of the program,
\* `obj` its kernel object and `got` what its latest receive() returned.
NoPeer == [inst |-> NoInst, obj |-> ObjOf(OsInit([raw \in RawSigs |-> "SIG_DFL"], {})),
           got |-> ""]

\* No iteration started yet.
NoIter == [it |-> -1, src |-> -1, yielded |-> <<>>, nones |-> 0, before |-> <<>>]

\* No value computed yet: `a` and `b` are the SignalSet values the program
\* holds (NoSet: none), `op`, `arg` and `out` the latest call of a function
\* of the vocabulary, its arguments and its result.
NoSet == -1

NoCalc == [a |-> NoSet, b |-> NoSet, op |-> "", arg |-> <<>>, out |-> None,
           iter |-> NoIter]

\* An iteration: the iterator `it`, the set `src` it was made from, the
\* signals `yielded` so far, the number `nones` of next() calls that returned
\* None, and the signals `before` that the iteration before this one yielded
\* (<<>> when this is the first).
Iteration(it, src, yielded, nones, before) ==
  [it |-> it, src |-> src, yielded |-> yielded, nones |-> nones, before |-> before]

InitWith(D) ==
  /\ backend \in Backends
  /\ calc = NoCalc
  /\ \E d \in D : os = OsInit(d.handler, d.blocked)
  /\ table = TableInit
  /\ inst = NoInst
  /\ pre = Snapshot(os)
  /\ trace = <<>>
  /\ nsent = 0
  /\ rpc = "idle"
  /\ retries = 0
  /\ nfaults = 0
  /\ last = [o |-> Blocks, r |-> ""]
  /\ run = NoRun
  /\ peer = NoPeer

Init == InitWith(PreDispositions)

InitFault == InitWith(FaultPreDispositions)

\* Signals::new(signals) with the faults f.
NewWith(signals, f) ==
  /\ inst.phase = "Uninit"
  /\ ~os.terminated
  /\ LET r == Signals_new(backend, os, table, signals, f)
     IN  /\ os' = r.w
         /\ table' = r.tbl
         /\ inst' = IF r.ok THEN r.self
                    ELSE [r.self EXCEPT !.phase = "Failed", !.signals = signals]
         /\ trace' = <<>>
  /\ pre' = Snapshot(os)
  /\ UNCHANGED <<backend, nsent, rpc, retries, nfaults, last, calc, run, peer>>

New == \E signals \in SignalSets : NewWith(signals, NoFault)

NewFault == \E signals \in SignalSets, f \in Faults(backend) : NewWith(signals, f)

\* kqueue: new() whose registering kevent call is interrupted.
NewInterrupted ==
  /\ backend = "kqueue"
  /\ \E signals \in SignalSets, f \in InterruptFaults : NewWith(signals, f)

NewCloseFault ==
  \E signals \in SignalSets, f \in CloseFaults(backend) : NewWith(signals, f)

\* send_signal(process::id(), signal).  Before new() a delivery that leaves
\* the process as it was (the signal is ignored, or handled by a handler of
\* the program) is a stuttering step.
DeliverUpTo(limit, max) ==
  \E signal \in Signal :
    /\ ~os.terminated
    /\ inst.phase \in {"Uninit", "Active"}
    /\ nsent < max
    /\ inst.phase = "Active" => Len(trace) < limit
    /\ os' = k_deliver(os, table, raw_signal(signal))
    /\ inst.phase = "Uninit" => os' # os
    /\ nsent' = nsent + 1
    /\ trace' = IF inst.phase = "Active" THEN Append(trace, <<"send", signal>>)
                ELSE trace
    /\ UNCHANGED <<backend, table, inst, pre, rpc, retries, nfaults, last, calc, run, peer>>

DeliverWith(limit) == DeliverUpTo(limit, MaxSent)

\* One pass through the loop of receive(), the system call having outcome c.o
\* and leaving the kernel state c.w.  `last` keeps the outcome of the latest
\* pass with what the pass made of it.
ReceiveStep(c, limit) ==
  /\ inst.phase = "Active"
  /\ ~os.terminated
  /\ rpc \in {"idle", "retry", "blocked"}
  /\ Len(trace) < limit
  /\ LET r == Signals_receive(backend, c.o)
     IN  IF c.o.blocks
         THEN /\ rpc' = "blocked"
              /\ UNCHANGED <<os, trace, retries, last>>
         ELSE IF r = "continue"
         THEN /\ retries < MaxRetry
              /\ rpc' = "retry"
              /\ retries' = retries + 1
              /\ os' = c.w
              /\ last' = [o |-> c.o, r |-> r]
              /\ UNCHANGED trace
         ELSE /\ rpc' = IF r = "Panic" THEN "panicked" ELSE "idle"
              /\ retries' = 0
              /\ os' = c.w
              /\ last' = [o |-> c.o, r |-> r]
              /\ trace' = Append(trace, <<"recv", r>>)
  /\ UNCHANGED <<backend, table, inst, pre, nsent, calc, run, peer>>

ReceiveWith(limit) ==
  /\ \E c \in k_receive_call(backend, os) : ReceiveStep(c, limit)
  /\ UNCHANGED nfaults

Deliver == DeliverWith(MaxTrace)

Receive == ReceiveWith(MaxTrace)

DeliverShort == DeliverWith(MaxFaultTrace)

ReceiveShort == ReceiveWith(MaxFaultTrace)

ReceiveFault ==
  /\ nfaults < MaxFaults
  /\ \E o \in FaultOutcomes(backend) : ReceiveStep([o |-> o, w |-> os], MaxFaultTrace)
  /\ nfaults' = IF rpc' = "retry" THEN nfaults ELSE nfaults + 1

\* The Signals value goes out of scope.
DropWith(f) ==
  /\ inst.phase = "Active"
  /\ ~os.terminated
  /\ rpc \in {"idle", "panicked"}
  /\ LET d == Signals_drop(backend, os, table, inst, f)
     IN  /\ os' = d.w
         /\ table' = d.tbl
  /\ inst' = [inst EXCEPT !.phase = "TornDown"]
  /\ UNCHANGED <<backend, pre, trace, nsent, rpc, retries, nfaults, last, calc, run, peer>>

Drop == DropWith(NoFault)

\* The drop with a failing restoration.
DropFault == \E k \in FailPoints \ {0} : DropWith([NoFault EXCEPT !.restore = k])

\* The drop with a failing close, the restoration failing or not.
DropCloseFault ==
  \E k \in FailPoints : DropWith([NoFault EXCEPT !.restore = k, !.close = TRUE])

DeliverBrief == DeliverWith(MaxDropTrace)

\* Enough signals to fill the pipe and send one more.
DeliverBurst == DeliverUpTo(MaxBurstTrace, MaxArrivals)

ReceiveBurst == ReceiveWith(MaxBurstTrace)

ReceiveBrief == ReceiveWith(MaxDropTrace)

\* The drain loop of the documentation, `loop { match signals.receive()? {
\* Some(signal) => .., None => break } }`, has left at None and is entered
\* again when a signal has been sent since.
LoopExited == trace # <<>> /\ trace[Len(trace)] = <<"recv", None>>

\* One pass through receive() inside the drain loop.
ReceiveDrain ==
  /\ ~LoopExited
  /\ \E c \in k_receive_call(backend, os) : ReceiveStep(c, Len(trace) + 1)
  /\ UNCHANGED nfaults

\* A pass whose read is interrupted, where receive() reads again.
ReceiveInterrupted ==
  /\ ~LoopExited
  /\ Signals_receive(backend, Outcome(-1, "EINTR", 0)) = "continue"
  /\ ReceiveStep([o |-> Outcome(-1, "EINTR", 0), w |-> os], Len(trace) + 1)
  /\ UNCHANGED nfaults

DeliverDrain == DeliverWith(Len(trace) + 1)

\* signals.register(registry, token, interests) and the like, the registry
\* answering res.
SourceCall(op, token) ==
  /\ inst.phase = "Active"
  /\ ~os.terminated
  /\ rpc \in {"idle", "panicked"}
  /\ \E res \in {"Ok", "Err"} :
       LET r == Signals_source(backend, os, inst, op, token, res)
       IN  /\ os' = r.w
           /\ calc' = [calc EXCEPT !.op = op, !.arg = <<token>>, !.out = r.res]
  /\ UNCHANGED <<backend, table, inst, pre, trace, nsent, rpc, retries, nfaults, last, run,
                 peer>>

Register == \E token \in Tokens : SourceCall("register", token)

Reregister == \E token \in Tokens : SourceCall("reregister", token)

Deregister == SourceCall("deregister", -1)

\* pipe: Signals::new(signals) is called.
NewStart ==
  /\ backend = "pipe"
  /\ inst.phase = "Uninit"
  /\ ~os.terminated
  /\ \E signals \in SignalSets :
       /\ inst' = [NoInst EXCEPT !.phase = "Constructing", !.signals = signals]
       /\ run' = [run EXCEPT !.op = "new", !.todo = pipe_new_steps(signals)]
  /\ pre' = Snapshot(os)
  /\ UNCHANGED <<backend, os, table, trace, nsent, rpc, retries, nfaults, last, calc, peer>>

\* kqueue, signalfd: Signals::new(signals) as one step.
NewWhole == backend # "pipe" /\ \E signals \in SignalSets : NewWith(signals, NoFault)

\* The Signals value goes out of scope.
DropStart ==
  /\ inst.phase = "Active"
  /\ run.op = "none"
  /\ ~os.terminated
  /\ inst' = [inst EXCEPT !.phase = "Dropping"]
  /\ run' = [run EXCEPT !.op = "drop", !.todo = drop_steps(backend, inst), !.fd = -1]
  /\ UNCHANGED <<backend, os, table, pre, trace, nsent, rpc, retries, nfaults, last, calc,
                 peer>>

\* The phase of the value when the call in progress has made its last step.
Finished == IF run.op = "new" THEN "Active"
            ELSE IF inst.err # "" THEN "Failed" ELSE "TornDown"

\* The next step of the call in progress succeeds.
StepOk ==
  /\ run.todo # <<>>
  /\ ~os.terminated
  /\ LET r == do_step(os, table, inst, run, Head(run.todo))
         rest == Tail(run.todo)
     IN  /\ os' = r.w
         /\ table' = r.tbl
         /\ inst' = IF rest = <<>> THEN [r.self EXCEPT !.phase = Finished] ELSE r.self
         /\ run' = [run EXCEPT !.todo = rest, !.fd = r.fd, !.holds = r.holds,
                               !.op = IF rest = <<>> THEN "none" ELSE @]
  /\ UNCHANGED <<backend, pre, trace, nsent, rpc, retries, nfaults, last, calc, peer>>

\* The next step is a libc::sigaction that returns -1: new() returns the
\* error and the value it built is dropped; drop logs the error and goes on.
StepFails ==
  /\ run.todo # <<>>
  /\ ~os.terminated
  /\ Head(run.todo).k = "sigaction"
  /\ nfaults < MaxFaults
  /\ nfaults' = nfaults + 1
  /\ IF run.op = "new"
     THEN /\ inst' = [inst EXCEPT !.phase = "Dropping", !.err = "install"]
          /\ run' = [run EXCEPT !.op = "drop", !.todo = drop_steps(backend, inst),
                                !.fd = -1]
     ELSE /\ run' = [run EXCEPT !.todo = after_failure(run.todo), !.logged = TRUE]
          /\ UNCHANGED inst
  /\ UNCHANGED <<backend, os, table, pre, trace, nsent, rpc, retries, last, calc, peer>>

\* A signal is sent to the process.  Where signal_handler is its handler the
\* handler starts on some thread and loads the table entry; its write is a
\* later step.
SignalArrives ==
  \E signal \in Signal :
    LET raw == raw_signal(signal)
        fd == handler_load(table, raw)
    IN  /\ ~os.terminated
        /\ nsent < MaxArrivals
        /\ nsent' = nsent + 1
        /\ IF os.handler[raw] = "signal_handler" /\ raw \notin os.blocked
           THEN /\ run' = [run EXCEPT !.hs = IF fd = -1 THEN @
                                            ELSE Append(@, [raw |-> raw, fd |-> fd])]
                /\ UNCHANGED os
           ELSE /\ os' = k_deliver(os, table, raw)
                /\ inst.phase = "Uninit" => os' # os
                /\ UNCHANGED run
        /\ UNCHANGED <<backend, table, inst, pre, trace, rpc, retries, nfaults, last, calc, peer>>

\* A running signal_handler makes its write and returns.
HandlerWrite ==
  \E i \in DOMAIN run.hs :
    /\ ~os.terminated
    /\ os' = handler_write(os, run.hs[i])
    /\ run' = [run EXCEPT !.hs = SubSeq(@, 1, i - 1) \o SubSeq(@, i + 1, Len(@))]
    /\ UNCHANGED <<backend, table, inst, pre, trace, nsent, rpc, retries, nfaults, last,
                   calc, peer>>

\* Signals::new(signals) for a second instance, over a set disjoint from the
\* first instance's.
NewPeer ==
  /\ inst.phase = "Active"
  /\ peer.inst.phase = "Uninit"
  /\ ~os.terminated
  /\ \E signals \in SignalSets :
       /\ BitAnd(signals, inst.signals) = 0
       /\ LET r == Signals_new(backend, View(os, NoPeer.obj), table, signals, NoFault)
          IN  /\ os' = View(r.w, ObjOf(os))
              /\ table' = r.tbl
              /\ peer' = [peer EXCEPT !.inst = r.self, !.obj = ObjOf(r.w)]
  /\ UNCHANGED <<backend, inst, pre, trace, nsent, rpc, retries, nfaults, last, calc, run>>

\* send_signal(process::id(), signal) with two instances: the kernel acts on
\* the process once and on each instance's object.
DeliverPair ==
  \E signal \in Signal :
    /\ ~os.terminated
    /\ {inst.phase, peer.inst.phase} \subseteq {"Active", "TornDown"}
    /\ "Active" \in {inst.phase, peer.inst.phase}
    /\ nsent < MaxSent
    /\ nsent' = nsent + 1
    /\ os' = k_deliver(os, table, raw_signal(signal))
    /\ peer' = [peer EXCEPT
                  !.obj = ObjOf(k_deliver(View(os, peer.obj), table, raw_signal(signal)))]
    /\ UNCHANGED <<backend, table, inst, pre, trace, rpc, retries, nfaults, last, calc,
                   run>>

\* receive() on the first instance, without faults.
ReceiveFirst ==
  /\ inst.phase = "Active"
  /\ ~os.terminated
  /\ \E c \in k_receive_call(backend, os) :
       /\ ~c.o.blocks
       /\ os' = c.w
       /\ last' = [o |-> c.o, r |-> Signals_receive(backend, c.o)]
  /\ UNCHANGED <<backend, table, inst, pre, trace, nsent, rpc, retries, nfaults, calc,
                 run, peer>>

\* receive() on the second instance, without faults.
ReceivePeer ==
  /\ peer.inst.phase = "Active"
  /\ ~os.terminated
  /\ \E c \in k_receive_call(backend, View(os, peer.obj)) :
       /\ ~c.o.blocks
       /\ os' = View(c.w, ObjOf(os))
       /\ peer' = [peer EXCEPT !.obj = ObjOf(c.w), !.got = Signals_receive(backend, c.o)]
  /\ UNCHANGED <<backend, table, inst, pre, trace, nsent, rpc, retries, nfaults, last,
                 calc, run>>

\* The first instance is dropped.
DropFirst == Drop

\* The second instance is dropped.
DropPeer ==
  /\ peer.inst.phase = "Active"
  /\ ~os.terminated
  /\ LET d == Signals_drop(backend, View(os, peer.obj), table, peer.inst, NoFault)
     IN  /\ os' = View(d.w, ObjOf(os))
         /\ table' = d.tbl
         /\ peer' = [peer EXCEPT !.inst.phase = "TornDown", !.obj = ObjOf(d.w)]
  /\ UNCHANGED <<backend, inst, pre, trace, nsent, rpc, retries, nfaults, last, calc, run>>

\* Signals::new(signals) with a step that fails, the calls of the drop it
\* then makes succeeding.
NewFails ==
  \E signals \in SignalSets, f \in Faults(backend) :
    f.restore = 0 /\ NewWith(signals, f)

\* send_signal(process::id(), signal) when the value has been dropped, by the
\* caller or by new() on its error path.
DeliverAfter ==
  \E signal \in Signal :
    /\ ~os.terminated
    /\ inst.phase \in {"TornDown", "Failed"}
    /\ nsent < MaxSent
    /\ nsent' = nsent + 1
    /\ os' = k_deliver(os, table, raw_signal(signal))
    /\ UNCHANGED <<backend, table, inst, pre, trace, rpc, retries, nfaults, last, calc,
                   run, peer>>

(* ----------------------- calls of the vocabulary ---------------------- *)

\* The vocabulary is pure: its calls leave the process as it is.
ProcessUnchanged ==
  UNCHANGED <<backend, os, table, inst, pre, trace, nsent, rpc, retries, nfaults, last, run,
                 peer>>

\* A call returning the SignalSet `set`, which the program keeps in `a`.
Returns(op, arg, set) ==
  /\ calc' = [calc EXCEPT !.a = set, !.op = op, !.arg = arg, !.out = set]
  /\ ProcessUnchanged

\* A call returning `out`, the sets the program holds staying as they are.
Yields(op, arg, out) ==
  /\ calc' = [calc EXCEPT !.op = op, !.arg = arg, !.out = out]
  /\ ProcessUnchanged

\* SignalSet::all()
CallAll == Returns("all", <<>>, SignalSet_all)

\* SignalSet::from(signal)
CallFrom == \E signal \in Signal : Returns("from", <<signal>>, SignalSet_from(signal))

\* signal | signal
CallSignalOrSignal ==
  \E s, t \in Signal :
    Returns("bitor", <<SignalSet_from(s), SignalSet_from(t)>>, Signal_bitor(s, t))

\* a | signal
CallSetOrSignal ==
  /\ calc.a # NoSet
  /\ \E s \in Signal :
       Returns("bitor", <<calc.a, SignalSet_from(s)>>, SignalSet_bitor_signal(calc.a, s))

\* signal | a
CallSignalOrSet ==
  /\ calc.a # NoSet
  /\ \E s \in Signal :
       Returns("bitor", <<SignalSet_from(s), calc.a>>, Signal_bitor_set(s, calc.a))

\* a | b
CallSetOrSet ==
  /\ calc.a # NoSet /\ calc.b # NoSet
  /\ Returns("bitor", <<calc.a, calc.b>>, SignalSet_bitor(calc.a, calc.b))

\* let b = a (SignalSet is Copy)
CopySet ==
  /\ calc.a # NoSet
  /\ calc' = [calc EXCEPT !.b = calc.a, !.op = "copy", !.arg = <<>>, !.out = calc.a]
  /\ ProcessUnchanged

\* a.contains(b)
CallContains ==
  /\ calc.a # NoSet /\ calc.b # NoSet
  /\ Yields("contains", <<calc.a, calc.b>>, SignalSet_contains(calc.a, calc.b))

\* a.contains(signal)
CallContainsSignal ==
  /\ calc.a # NoSet
  /\ \E s \in Signal :
       Yields("contains_signal", <<calc.a, s>>,
              SignalSet_contains(calc.a, SignalSet_from(s)))

\* a.len()
CallLen ==
  /\ calc.a # NoSet
  /\ Yields("len", <<calc.a>>, SignalSet_len(calc.a))

\* raw_signal(signal)
CallRawSignal == \E s \in SysSignal : Yields("raw_signal", <<s>>, raw_signal(s))

\* from_raw_signal(raw)
CallFromRawSignal ==
  \E raw \in -1..MaxRaw : Yields("from_raw_signal", <<raw>>, from_raw_signal(raw))

\* from_raw_signal(raw_signal(signal)), raw_signal(signal) being the latest result
CallFromRawOfRaw ==
  /\ calc.op = "raw_signal"
  /\ Yields("from_raw_signal(raw_signal)", calc.arg, from_raw_signal(calc.out))

\* raw_signal(x.unwrap()), x being the latest result of from_raw_signal
CallRawOfFromRaw ==
  /\ calc.op \in {"from_raw_signal", "from_raw_signal(raw_signal)"}
  /\ calc.out # None
  /\ Yields(IF calc.op = "from_raw_signal" THEN "raw_signal(from_raw_signal)"
            ELSE "raw_signal(from_raw_signal(raw_signal))",
            calc.arg, raw_signal(calc.out))

\* a.into_iter(), after the iteration before it (if any) has ended
CallIntoIter ==
  /\ calc.a # NoSet
  /\ calc.iter = NoIter \/ (calc.iter.nones > 0 /\ calc.iter.before = <<>>)
  /\ calc' = [calc EXCEPT !.op = "into_iter", !.arg = <<calc.a>>,
                          !.out = SignalSet_into_iter(calc.a),
                          !.iter = Iteration(SignalSet_into_iter(calc.a), calc.a,
                                             <<>>, 0, calc.iter.yielded)]
  /\ ProcessUnchanged

\* iter.next()
CallNext ==
  /\ calc.iter # NoIter
  /\ calc.iter.nones < MaxNones
  /\ LET r == SignalSetIter_next(calc.iter.it)
     IN  calc' = [calc EXCEPT
                    !.op = "next", !.arg = <<calc.iter.it>>, !.out = r.item,
                    !.iter = [@ EXCEPT
                                !.it = r.iter,
                                !.yielded = IF r.item = None THEN @
                                            ELSE Append(@, r.item),
                                !.nones = IF r.item = None THEN @ + 1 ELSE @]]
  /\ ProcessUnchanged

\* iter.size_hint() (iter.len() is its first component)
CallSizeHint ==
  /\ calc.iter # NoIter
  /\ Yields("size_hint", <<calc.iter.it>>, SignalSetIter_size_hint(calc.iter.it))

\* The program holds one SignalSet, any of them.
InitIteration ==
  /\ backend = "kqueue"
  /\ \E set \in SignalSets : calc = [NoCalc EXCEPT !.a = set]
  /\ os = OsInit([raw \in RawSigs |-> "SIG_DFL"], {})
  /\ table = TableInit
  /\ inst = NoInst
  /\ pre = Snapshot(os)
  /\ trace = <<>>
  /\ nsent = 0
  /\ rpc = "idle"
  /\ retries = 0
  /\ nfaults = 0
  /\ last = [o |-> Blocks, r |-> ""]
  /\ run = NoRun
  /\ peer = NoPeer

NextIteration == CallIntoIter \/ CallNext \/ CallSizeHint

InitVocabulary ==
  /\ backend = "kqueue"
  /\ calc = NoCalc
  /\ os = OsInit([raw \in RawSigs |-> "SIG_DFL"], {})
  /\ table = TableInit
  /\ inst = NoInst
  /\ pre = Snapshot(os)
  /\ trace = <<>>
  /\ nsent = 0
  /\ rpc = "idle"
  /\ retries = 0
  /\ nfaults = 0
  /\ last = [o |-> Blocks, r |-> ""]
  /\ run = NoRun
  /\ peer = NoPeer

NextVocabulary ==
  \/ CallAll \/ CallFrom \/ CallSignalOrSignal \/ CallSetOrSignal \/ CallSignalOrSet
  \/ CallSetOrSet \/ CopySet \/ CallContains \/ CallContainsSignal \/ CallLen
  \/ CallRawSignal \/ CallFromRawSignal \/ CallFromRawOfRaw \/ CallRawOfFromRaw

(* --------------------------- specifications --------------------------- *)

Next == New \/ Deliver \/ Receive \/ Drop

NextFault ==
  New \/ NewFault \/ DeliverShort \/ ReceiveShort \/ ReceiveFault \/ Drop \/ DropFault

NextTeardown ==
  \/ New \/ NewFault \/ NewCloseFault \/ NewInterrupted
  \/ DeliverBrief \/ ReceiveBrief
  \/ Drop \/ DropFault \/ DropCloseFault

\* The system calls succeed.
NextSource ==
  New \/ DeliverBrief \/ ReceiveBrief \/ Register \/ Reregister \/ Deregister \/ Drop

NextDrain == New \/ DeliverDrain \/ ReceiveDrain \/ ReceiveInterrupted

NextSteps ==
  NewStart \/ NewWhole \/ DropStart \/ StepOk \/ StepFails \/ SignalArrives
    \/ HandlerWrite

NextLifecycle ==
  \/ New \/ NewFails \/ DeliverBrief \/ ReceiveBrief
  \/ Register \/ Reregister \/ Deregister
  \/ Drop \/ DeliverAfter

NextBurst == New \/ DeliverBurst \/ ReceiveBurst \/ Drop

NextPair ==
  New \/ NewPeer \/ DeliverPair \/ ReceiveFirst \/ ReceivePeer \/ DropFirst \/ DropPeer

Spec == Init /\ [][Next]_vars

\* The system calls may fail in every way the code distinguishes.
SpecFault == InitFault /\ [][NextFault]_vars

\* The system calls of new() and of drop, close included, may fail.
SpecTeardown == InitFault /\ [][NextTeardown]_vars

\* The calls of the signal vocabulary: SignalSet and the raw mapping.
SpecVocabulary == InitVocabulary /\ [][NextVocabulary]_vars

\* The iterations of a SignalSet.
SpecIteration == InitIteration /\ [][NextIteration]_vars

\* The drain loop: the thread that runs it is scheduled, so a pass that can
\* be made is made; interruptions and deliveries are the environment's.
SpecDrain == InitFault /\ [][NextDrain]_vars /\ WF_vars(ReceiveDrain)

\* new() and drop one system call at a time, signal_handler one access at a
\* time, in every interleaving.
SpecSteps == InitFault /\ [][NextSteps]_vars

\* Bursts of signals, long enough to fill the pipe of the pipe backend.
SpecLifecycle == InitFault /\ [][NextLifecycle]_vars

SpecBurst == InitFault /\ [][NextBurst]_vars

\* Two instances over disjoint sets.
SpecPair == InitFault /\ [][NextPair]_vars

\* new(), deliveries, receive(), the calls of event::Source, drop.
SpecSource == InitFault /\ [][NextSource]_vars

(* ------------------------------ claims -------------------------------- *)

\* The signals of a SignalSet.
Members(signals) ==
  IF signals = 0 THEN {}
  ELSE {sig \in Signal : SignalSet_contains(signals, SignalSet_from(sig))}

\* The disposition of raw is what it was when new() was called.
SameDisposition(raw) ==
  /\ os.handler[raw] = pre.handler[raw]
  /\ (raw \in os.blocked) = (raw \in pre.blocked)

\* The backend keeps raw from its default action.
Intercepted(raw) ==
  CASE backend = "kqueue" -> os.handler[raw] = "SIG_IGN"
    [] backend = "signalfd" -> raw \in os.blocked
    [] backend = "pipe" -> os.handler[raw] = "signal_handler"

Sends(t) == {i \in DOMAIN t : t[i][1] = "send"}

Recvs(t) == {i \in DOMAIN t : t[i][1] = "recv"}

\* C1: after new(S) succeeded and the instance was dropped, every signal of S
\* has the disposition it had immediately before new(S), whatever that was.
C1_RestoredAfterDrop ==
  inst.phase = "TornDown" =>
    \A sig \in Members(inst.signals) : SameDisposition(raw_signal(sig))

\* C2: while the instance is live every signal of S is intercepted (ignored,
\* blocked or handled by signal_handler, by backend), and the default action
\* of a signal of S has not terminated the process.
C2_Intercepted ==
  inst.phase = "Active" =>
    /\ \A sig \in Members(inst.signals) : Intercepted(raw_signal(sig))
    /\ ~(os.terminated /\ os.killedBy \in RawSet(inst.signals))

\* A signal of S whose disposition was the default one before new() has been
\* sent to the live instance.
C2_Witness ==
  /\ inst.phase = "Active"
  /\ ~os.terminated
  /\ \E i \in Sends(trace) :
       /\ trace[i][2] \in Members(inst.signals)
       /\ pre.handler[raw_signal(trace[i][2])] = "SIG_DFL"
       /\ raw_signal(trace[i][2]) \notin pre.blocked

\* The trace is: sig sent once, then receive() called until it returned
\* Ok(None), nothing else.
DrainAfterOneSend(t, sig) ==
  /\ Len(t) >= 2
  /\ t[1] = <<"send", sig>>
  /\ \A i \in 2..Len(t) : t[i][1] = "recv"
  /\ t[Len(t)] = <<"recv", None>>
  /\ \A i \in 2..(Len(t) - 1) : t[i][2] # None

Occurrences(t, sig) == Cardinality({i \in Recvs(t) : t[i][2] = sig})

\* C3 as stated: a signal of S sent once after new(S) is returned exactly once
\* by the receive() calls up to the first Ok(None).
C3_ExactlyOnce ==
  \A sig \in Members(inst.signals) :
    DrainAfterOneSend(trace, sig) => Occurrences(trace, sig) = 1

\* C3 amended: the same, when in the pipe backend the signal is not blocked in
\* the caller's signal mask (the backend's handler runs for unblocked signals
\* only, and the backend leaves the mask alone).
C3_ExactlyOnceUnblocked ==
  \A sig \in Members(inst.signals) :
    (/\ DrainAfterOneSend(trace, sig)
     /\ backend = "pipe" => raw_signal(sig) \notin pre.blocked)
      => Occurrences(trace, sig) = 1

\* A signal of S was sent once and the drain that followed returned it.
C3_Witness ==
  \E sig \in Members(inst.signals) :
    /\ DrainAfterOneSend(trace, sig)
    /\ backend = "pipe" => raw_signal(sig) \notin pre.blocked
    /\ Occurrences(trace, sig) = 1

\* C4: every signal receive() returns is a member of S.
C4_OnlyRequested ==
  \A i \in Recvs(trace) :
    trace[i][2] \in {"Interrupt", "Quit", "Terminate", "User1", "User2"}
      => trace[i][2] \in Members(inst.signals)

\* A signal outside S was sent to the live instance and receive() was called
\* afterwards.
C4_Witness ==
  \E i \in Sends(trace), j \in Recvs(trace) :
    /\ i < j
    /\ trace[i][2] \notin Members(inst.signals)

\* Nothing is pending on the instance's descriptor.
NothingPending ==
  CASE backend = "kqueue" -> os.kqEvents = {}
    [] backend = "signalfd" -> os.pending \cap os.sfdMask = {}
    [] backend = "pipe" -> os.pipeBuf = <<>>

\* A step of receive().
ReceiveActs == rpc' # rpc \/ (Len(trace') = Len(trace) + 1 /\ trace'[Len(trace')][1] = "recv")

\* C5: receive() never waits, and called with nothing pending it returns
\* Ok(None) in the one step, leaving the kernel state as it was.
C5_NonBlocking ==
  /\ [](rpc # "blocked")
  /\ [][(inst.phase = "Active" /\ NothingPending /\ ReceiveActs)
          => /\ trace' = Append(trace, <<"recv", None>>)
             /\ rpc' = "idle"
             /\ os' = os]_vars

\* receive() returned Ok(None) on an instance nothing was sent to.
C5_Witness ==
  /\ inst.phase = "Active"
  /\ rpc = "idle"
  /\ trace = <<<<"recv", None>>>>

\* The run of the example: send Interrupt, drain twice, send Terminate, drain.
Scenario ==
  <<<<"send", "Interrupt">>, <<"recv", "Interrupt">>, <<"recv", None>>,
    <<"send", "Terminate">>, <<"recv", "Terminate">>>>

\* A trace with its receive() results left out.
Shape(t) == [i \in DOMAIN t |-> IF t[i][1] = "recv" THEN <<"recv", "">> ELSE t[i]]

DefaultBefore ==
  /\ pre.blocked = {}
  /\ \A raw \in RawSigs : pre.handler[raw] = "SIG_DFL"

\* C6: from default dispositions and new({Interrupt, Quit, Terminate}), the
\* sends and receive() calls of the scenario give the scenario's results, the
\* process is never terminated, and after the drop the three signals have the
\* dispositions they had before new().
C6_Scenario ==
  (/\ DefaultBefore
   /\ inst.phase \in {"Active", "TornDown"}
   /\ inst.signals = SignalSet_all
   /\ Len(trace) <= Len(Scenario)
   /\ inst.phase = "TornDown" => Len(trace) = Len(Scenario)
   /\ Shape(trace) = Shape(SubSeq(Scenario, 1, Len(trace))))
    => /\ trace = SubSeq(Scenario, 1, Len(trace))
       /\ ~os.terminated
       /\ (inst.phase = "TornDown" /\ trace = Scenario)
            => \A raw \in RawSigs : SameDisposition(raw)

\* The whole scenario has run and the instance is dropped.
C6_Witness ==
  /\ DefaultBefore
  /\ inst.phase = "TornDown"
  /\ inst.signals = SignalSet_all
  /\ trace = Scenario

\* C7: when new() has failed no descriptor of the attempt is open and the
\* table of the pipe backend holds no descriptor.
C7_NoLeak ==
  inst.phase = "Failed" =>
    /\ os.fds = {}
    /\ \A raw \in RawSigs : table[raw] = -1

\* new() failed at a step after its descriptor was acquired.
C7_Witness ==
  /\ inst.phase = "Failed"
  /\ inst.fd # -1

\* C8: when new(S) has failed every signal of S has the disposition it had
\* before the call, whatever that was and whichever step failed.
C8_RestoredAfterFailure ==
  inst.phase = "Failed" =>
    \A sig \in Members(inst.signals) : SameDisposition(raw_signal(sig))

\* C9: receive() never returns the "interrupted" error.
C9_EintrNotSurfaced ==
  last.o.errno = "EINTR" => last.r = "continue"

\* The record or event breaks the format: a wrong size or count, or a signal
\* number from_raw_signal does not know.
Malformed(b, o) ==
  /\ ~o.blocks
  /\ o.n # -1
  /\ CASE b = "kqueue" -> o.n \notin {0, 1} \/ (o.n = 1 /\ from_raw_signal(o.signo) = None)
       [] b = "signalfd" -> o.n # INFO_SIZE \/ from_raw_signal(o.signo) = None
       [] b = "pipe" -> o.n # SIGNAL_SIZE \/ from_raw_signal(o.signo) = None

\* C10: a malformed record or event makes receive() panic; it is never
\* returned as Ok(None).
C10_FailsLoudly ==
  Malformed(backend, last.o) => last.r = "Panic"

\* The calls of libc::close on descriptor fd so far.
Closes(fd) == {i \in DOMAIN os.closeLog : os.closeLog[i][1] = fd}

\* The instance's drop has run (by the caller, or by new() on its error path).
Dropped ==
  \/ inst.phase = "TornDown"
  \/ inst.phase = "Failed" /\ inst.fd # -1

\* C11: drop completes without error or panic (the debug assertion of the
\* pipe backend's drop holds for the live instance), and once it has run,
\* with restoration and close succeeding or failing, close has been called
\* exactly once on the instance's descriptor, no descriptor was closed twice,
\* and no descriptor is left open.
C11_TeardownCloses ==
  /\ (inst.phase = "Active" /\ backend = "pipe")
       => pipe_drop(os, table, inst, NoFault).holds
  /\ Dropped =>
       /\ Cardinality(Closes(inst.fd)) = 1
       /\ \A i, j \in DOMAIN os.closeLog :
            os.closeLog[i][1] = os.closeLog[j][1] => i = j
       /\ os.fds = {}

\* The instance was dropped, restoration failed (a signal of S is still
\* intercepted) and close returned -1.
C11_Witness ==
  /\ inst.phase = "TornDown"
  /\ \E sig \in Members(inst.signals) : Intercepted(raw_signal(sig))
  /\ \E i \in DOMAIN os.closeLog : os.closeLog[i][2] = -1

\* A step of new() on the kqueue backend whose registering kevent call has
\* the outcome of f.
KqNewStep(signals, f) == backend = "kqueue" /\ NewWith(signals, f)

\* C12: kqueue's new() takes an interrupted registration for a success and
\* goes on to the ignore step (new() then returns Ok with the filters
\* registered and the signals ignored, or the error of the ignore step); a
\* registration failing otherwise makes new() return that error with the
\* queue closed.
C12_Registration ==
  [][/\ \A signals \in SignalSets, f \in InterruptFaults :
          KqNewStep(signals, f) =>
            /\ inst'.err = (IF f.install = 0 THEN "" ELSE "install")
            /\ inst'.phase = "Active" =>
                 /\ RawSet(signals) \subseteq os'.kqFilters
                 /\ \A raw \in RawSet(signals) : os'.handler[raw] = "SIG_IGN"
     /\ \A signals \in SignalSets, f \in Faults("kqueue") :
          (f.register = "err" /\ KqNewStep(signals, f)) =>
            /\ inst'.phase = "Failed"
            /\ inst'.err = "register"
            /\ os'.fds = os.fds
            /\ \E i \in DOMAIN os'.closeLog : os'.closeLog[i][1] = inst'.fd]_vars

\* new() has returned Ok after an interrupted registration.
C12_Witness ==
  /\ backend = "kqueue"
  /\ inst.phase = "Active"
  /\ os.kqInterrupted

\* C13: from_raw_signal(raw_signal(s)) is Some(s) for every signal s that
\* raw_signal converts, and no other signal has the number of s.
C13_FromRawOfRaw ==
  /\ calc.op = "from_raw_signal(raw_signal)" => calc.out = calc.arg[1]
  /\ calc.op = "raw_signal" =>
       \A t \in SysSignal \ {calc.arg[1]} : raw_signal(t) # calc.out

\* from_raw_signal was given the number raw_signal returned for User2.
C13_Witness ==
  /\ calc.op = "from_raw_signal(raw_signal)"
  /\ calc.arg = <<"User2">>
  /\ calc.out = "User2"

\* C14: when from_raw_signal(n) is Some(s), raw_signal(s) is n; and
\* raw_signal(from_raw_signal(raw_signal(s)).unwrap()) is raw_signal(s).
C14_RawOfFromRaw ==
  /\ calc.op = "raw_signal(from_raw_signal)" => calc.out = calc.arg[1]
  /\ calc.op = "raw_signal(from_raw_signal(raw_signal))"
       => calc.out = raw_signal(calc.arg[1])

\* raw_signal was given the signal from_raw_signal returned for SIGQUIT.
C14_Witness ==
  /\ calc.op = "raw_signal(from_raw_signal)"
  /\ calc.arg = <<SIGQUIT>>
  /\ calc.out = SIGQUIT

\* C15: from_raw_signal returns a signal or None for every number, and None
\* for every number that is not raw_signal(s) for a signal s.
C15_FromRawTotal ==
  calc.op = "from_raw_signal" =>
    /\ calc.out \in SysSignal \cup {None}
    /\ calc.arg[1] \notin {raw_signal(s) : s \in SysSignal} => calc.out = None

\* from_raw_signal was given SIGSTOP.
C15_Witness ==
  /\ calc.op = "from_raw_signal"
  /\ calc.arg = <<SIGSTOP>>
  /\ calc.out = None

\* The integer is not zero and has bits of Signal variants only.
WellFormed(set) ==
  /\ set \in 1..255
  /\ BitAnd(set, INTERRUPT + QUIT + TERMINATE) = set

\* C16: every SignalSet built by all(), from() and the | operators, in any
\* sequence, is non-zero and has bits of Signal variants only.
C16_NeverZero ==
  /\ calc.a # NoSet => WellFormed(calc.a)
  /\ calc.b # NoSet => WellFormed(calc.b)
  /\ calc.op \in {"all", "from", "bitor", "copy"} => WellFormed(calc.out)

\* A set built by | from sets built before it.
C16_Witness ==
  /\ calc.op = "bitor"
  /\ calc.b # NoSet
  /\ calc.arg = <<calc.out, calc.b>>
  /\ calc.out = INTERRUPT + QUIT

\* C17: SignalSet::from(s) contains s, has length 1 and contains no other
\* signal.
C17_FromSingleton ==
  calc.op = "from" =>
    /\ SignalSet_contains(calc.out, SignalSet_from(calc.arg[1]))
    /\ SignalSet_len(calc.out) = 1
    /\ \A t \in Signal \ {calc.arg[1]} :
         ~SignalSet_contains(calc.out, SignalSet_from(t))

\* SignalSet::from(Terminate) was called.
C17_Witness ==
  /\ calc.op = "from"
  /\ calc.arg = <<"Terminate">>

\* C18: SignalSet::all() contains every signal raw_signal converts, and its
\* length is the number of these signals.
C18_AllComplete ==
  calc.op = "all" =>
    /\ \A s \in SysSignal :
         s \in Signal /\ SignalSet_contains(calc.out, SignalSet_from(s))
    /\ SignalSet_len(calc.out) = Cardinality(SysSignal)

\* C19: A | A = A, A | B = B | A, and A | B contains A and B.
C19_Union ==
  calc.op = "bitor" =>
    LET A == calc.arg[1]
        B == calc.arg[2]
    IN  /\ calc.out = SignalSet_bitor(B, A)
        /\ SignalSet_bitor(A, A) = A
        /\ A = B => calc.out = A
        /\ SignalSet_contains(calc.out, A)
        /\ SignalSet_contains(calc.out, B)

\* The union of two sets neither of which contains the other.
C19_Witness ==
  /\ calc.op = "bitor"
  /\ calc.arg = <<INTERRUPT + QUIT, QUIT + TERMINATE>>

\* Signal s is one of the signals iterating `set` yields.
Yielded(set, s) == \E i \in DOMAIN IterSeq(set) : IterSeq(set)[i] = s

\* C20: A.contains(B) is true exactly when every member of B is a member of
\* A, and A.contains(s) exactly when s is a member of A.
C20_Contains ==
  /\ calc.op = "contains" =>
       (calc.out <=> \A s \in Signal :
                       Yielded(calc.arg[2], s) => Yielded(calc.arg[1], s))
  /\ calc.op = "contains_signal" =>
       (calc.out <=> Yielded(calc.arg[1], calc.arg[2]))

\* contains() returned false for two sets with a signal in common.
C20_Witness ==
  /\ calc.op = "contains"
  /\ calc.out = FALSE
  /\ BitAnd(calc.arg[1], calc.arg[2]) # 0

\* C21: an iteration yields members of the set only, none twice; the
\* iterator's len() and size_hint() are the number of signals still to be
\* yielded; once next() has returned None the iteration has yielded len()
\* signals and yields no more; the set iterated is unchanged and a second
\* iteration of it yields the same signals.
C21_Iteration ==
  calc.iter # NoIter =>
    LET I == calc.iter
        left == SignalSet_len(I.src) - Len(I.yielded)
    IN  /\ \A i \in DOMAIN I.yielded :
             SignalSet_contains(I.src, SignalSet_from(I.yielded[i]))
        /\ \A i, j \in DOMAIN I.yielded : I.yielded[i] = I.yielded[j] => i = j
        /\ SignalSetIter_len(I.it) = left
        /\ calc.op = "size_hint" => calc.out = <<left, left>>
        /\ I.nones > 0 => left = 0
        /\ (calc.op = "next" /\ calc.out = None) => left = 0
        /\ calc.a = I.src
        /\ (I.nones > 0 /\ I.before # <<>>) => I.yielded = I.before

\* The records receive() can still take: the events of the queue, the
\* pending signals of the signalfd's mask, the records in the pipe.
Queued(b, w) ==
  CASE b = "kqueue" -> Cardinality(w.kqEvents)
    [] b = "signalfd" -> Cardinality(w.pending \cap w.sfdMask)
    [] b = "pipe" -> Len(w.pipeBuf)

\* receive() returns r in this step.
ReceiveReturns(r) == trace' = Append(trace, <<"recv", r>>)

\* C23: every Ok(Some) takes one queued record and receive() queues none, so
\* the drain loop sees at most as many Ok(Some) as records were queued; when
\* no further signal arrives the loop reaches Ok(None); and a receive() call
\* that was interrupted ends, unless a signal has terminated the process.
C23_DrainTerminates ==
  /\ [][/\ \A signal \in Signal :
            ReceiveReturns(signal) => Queued(backend, os') = Queued(backend, os) - 1
        /\ ReceiveReturns(None) => Queued(backend, os) = 0 /\ os' = os
        /\ retries' = retries + 1 => os' = os]_vars
  /\ [](inst.phase = "Active" /\ ~os.terminated /\ nsent = MaxSent => <>LoopExited)
  /\ [](rpc = "retry" => <>(rpc # "retry" \/ os.terminated))

\* The loop has left at None after an Ok(Some), every signal having been sent.
C23_Witness ==
  /\ LoopExited
  /\ nsent = MaxSent
  /\ \E i \in Recvs(trace) : trace[i][2] \in Signal

\* C24: what the latest pass of receive() in the signalfd and pipe backends
\* made of its read: would block, Ok(None) and the call is over; interrupted,
\* the read is repeated; a record of the fixed size, the signal
\* from_raw_signal decodes it to; another error, that error; another byte
\* count, a panic.
C24_ReadOutcomes ==
  (backend \in {"signalfd", "pipe"} /\ last.r # "") =>
    LET o == last.o
        size == IF backend = "signalfd" THEN INFO_SIZE ELSE SIGNAL_SIZE
    IN  /\ (o.n = -1 /\ o.errno = "EAGAIN") => (last.r = None /\ rpc # "retry")
        /\ (o.n = -1 /\ o.errno = "EINTR") => (last.r = "continue" /\ rpc = "retry")
        /\ o.n = size => last.r = from_raw_signal(o.signo)
        /\ (o.n = -1 /\ o.errno \notin {"EAGAIN", "EINTR"}) => last.r = "Err_" \o o.errno
        /\ o.n \notin {-1, size} => (last.r = "Panic" /\ rpc = "panicked")

\* A read of the pipe returned two bytes after a signal had been received.
C24_Witness ==
  /\ backend = "pipe"
  /\ last.o.n = 2
  /\ last.r = "Panic"
  /\ \E i \in Recvs(trace) : trace[i][2] \in Signal

\* The steps of drop that revert what new() changed.
Reverting == {"sigaction", "unblock", "swap"}

\* The process-wide disposition of the instance's signals is reverted:
\* default handlers (kqueue, pipe), signals unblocked (signalfd).
Reverted ==
  IF backend = "signalfd" THEN inst.sigset \cap os.blocked = {}
  ELSE \A raw \in RawSet(inst.signals) : os.handler[raw] = "SIG_DFL"

\* C25: in drop no descriptor is closed while a reverting call is still to
\* be made, and the pipe backend clears no table entry while a handler is
\* still to be reset; where no sigaction call has failed, the dispositions
\* are reverted when the first entry is cleared, and the entries are cleared
\* when the write descriptor is closed.
C25_TeardownOrder ==
  [][run.op = "drop" =>
       /\ Len(os'.closeLog) > Len(os.closeLog) =>
            /\ \A i \in DOMAIN run'.todo : run'.todo[i].k \notin Reverting
            /\ nfaults = 0 => Reverted
            /\ backend = "pipe" => \A raw \in RawSet(inst.signals) : table[raw] = -1
       /\ table' # table =>
            /\ \A i \in DOMAIN run'.todo : run'.todo[i].k # "sigaction"
            /\ nfaults = 0 => Reverted]_vars

\* The drop of a pipe instance made for every signal has closed the write
\* descriptor and then the read descriptor.
C25_Witness ==
  /\ backend = "pipe"
  /\ inst.phase = "TornDown"
  /\ inst.signals = SignalSet_all
  /\ Len(os.closeLog) = 2
  /\ os.closeLog[2][1] = inst.fd

\* Signal numbers signal_handler has no table entry for.
Untabled == {SIGUSR1, SIGUSR2, SIGSTOP}

\* C26: signal_handler writes nothing for a signal whose entry is -1 or that
\* has no entry; otherwise it loads the entry once and makes one write of the
\* signal number to the descriptor loaded, after which it has returned
\* whether the write queued the record or failed.
C26_HandlerBounded ==
  /\ [](/\ \A raw \in Untabled :
             handler_load(table, raw) = -1 /\ signal_handler(os, table, raw) = os
        /\ \A raw \in RawSigs :
             signal_handler(os, table, raw) =
               IF handler_load(table, raw) = -1 THEN os
               ELSE handler_write(os, [raw |-> raw, fd |-> table[raw]]))
  /\ [][/\ nsent' = nsent + 1 =>
            \/ run'.hs = run.hs
            \/ \E raw \in RawSigs :
                 /\ table[raw] # -1
                 /\ run'.hs = Append(run.hs, [raw |-> raw, fd |-> table[raw]])
                 /\ os' = os
                 /\ table' = table
        /\ Len(run'.hs) < Len(run.hs) =>
            \E i \in DOMAIN run.hs :
              /\ run'.hs = SubSeq(run.hs, 1, i - 1) \o SubSeq(run.hs, i + 1, Len(run.hs))
              /\ os' \in {os, [os EXCEPT !.pipeBuf = Append(@, run.hs[i].raw)]}
              /\ table' = table]_vars

\* Every signal sent was handled by signal_handler with its entry set, and
\* one of the writes failed on the full pipe.
C26_Witness ==
  /\ backend = "pipe"
  /\ inst.phase = "Active"
  /\ inst.signals = SignalSet_all
  /\ pre = [handler |-> [raw \in RawSigs |-> "SIG_DFL"], blocked |-> {}]
  /\ nsent = MaxArrivals
  /\ run.hs = <<>>
  /\ Len(os.pipeBuf) = PipeCap

\* C27: in the drop of a pipe instance every debug_assert_eq! holds (each
\* entry swapped out held the descriptor the first one held), the swaps
\* take out the instance's write descriptor, and once the instance is
\* dropped the table entry of every signal of its set is -1.
C27_TableCleared ==
  backend = "pipe" =>
    /\ run.holds
    /\ \A i \in DOMAIN os.closeLog : os.closeLog[i][1] # -1
    /\ inst.phase \in {"TornDown", "Failed"} =>
         \A raw \in RawSet(inst.signals) : table[raw] = -1

\* A pipe instance of two signals has been dropped after a signal was sent.
C27_Witness ==
  /\ backend = "pipe"
  /\ inst.phase = "TornDown"
  /\ SignalSet_len(inst.signals) = 2
  /\ nsent > 0
  /\ run.fd # -1

\* The table entry of raw holds the open write descriptor of the pipe.
Published(raw) == table[raw] # -1 /\ table[raw] = os.pipeW /\ table[raw] \in os.fds

C29_NoWriteAfterClose ==
  [][\A i \in DOMAIN run.hs :
       run'.hs = SubSeq(run.hs, 1, i - 1) \o SubSeq(run.hs, i + 1, Len(run.hs))
         => run.hs[i].fd \in os.fds]_vars

\* C30: no step of new(S), receive() or drop changes the handler or the
\* blocked state of a signal that is not in S.
C30_Frame ==
  [][\A raw \in RawSigs \ RawSet(inst'.signals) :
       /\ os'.handler[raw] = os.handler[raw]
       /\ raw \in os'.blocked <=> raw \in os.blocked]_vars

\* A signalfd instance was dropped: a signal of its set that was blocked
\* before new() is unblocked and one outside the set is still blocked.
C30_Witness ==
  /\ backend = "signalfd"
  /\ inst.phase = "TornDown"
  /\ \E r1 \in RawSet(inst.signals), r2 \in RawSigs \ RawSet(inst.signals) :
       /\ r1 \in pre.blocked /\ r1 \notin os.blocked
       /\ r2 \in pre.blocked /\ r2 \in os.blocked

\* C31: the drop of an instance delivers no signal of its set that arrived
\* while it was Active and was not drained: the step of the drop does not
\* terminate the process by the default action of such a signal.
C31_NoDeliveryAtDrop ==
  [][(inst.phase = "Active" /\ inst'.phase = "TornDown") => ~os'.terminated]_vars

\* C32: a signal of S sent while the instance is Active (and, in the pipe
\* backend, not blocked by the caller) is returned by a receive() call
\* between its sending and the first Ok(None) after it, whatever else is
\* queued.
C32_NoSignalLost ==
  \A i \in Sends(trace), j \in Recvs(trace) :
    (/\ i < j
     /\ trace[j][2] = None
     /\ trace[i][2] \in Members(inst.signals)
     /\ backend = "pipe" => raw_signal(trace[i][2]) \notin pre.blocked)
      => \E k \in Recvs(trace) : i < k /\ k < j /\ trace[k][2] = trace[i][2]

\* Signals of number raw reach the kernel object obj.
Routed(obj, raw) ==
  CASE backend = "kqueue" -> obj.kqFd \in os.fds /\ raw \in obj.kqFilters
    [] backend = "signalfd" -> obj.sfdFd \in os.fds /\ raw \in obj.sfdMask
    [] backend = "pipe" -> obj.pipeW \in os.fds /\ table[raw] = obj.pipeW

\* The instance self with the object obj is untouched by what happened to
\* the other instance: descriptor open, signals intercepted and routed to it.
Intact(self, obj) ==
  /\ self.fd \in os.fds
  /\ \A raw \in RawSet(self.signals) : Intercepted(raw) /\ Routed(obj, raw)

\* C33: of two instances over disjoint sets each receives signals of its own
\* set only, and each stays intact while it is Active, whether the other is
\* live or has been dropped.
C33_Independent ==
  /\ last.r \in Signal => last.r \in Members(inst.signals)
  /\ peer.got \in Signal => peer.got \in Members(peer.inst.signals)
  /\ inst.phase = "Active" => Intact(inst, ObjOf(os))
  /\ peer.inst.phase = "Active" => Intact(peer.inst, peer.obj)

\* The first instance was dropped and the second is live; each has received
\* a signal.
C33_Witness ==
  /\ inst.phase = "TornDown"
  /\ peer.inst.phase = "Active"
  /\ last.r \in Signal
  /\ peer.got \in Signal

\* What receive() returns for Err.
ErrResults == {"Err_" \o e : e \in {"EINTR", "EIO"}}

\* A receive() call returns Err in this step.
ReturnsErr ==
  /\ Len(trace') = Len(trace) + 1
  /\ trace'[Len(trace')][1] = "recv"
  /\ trace'[Len(trace')][2] \in ErrResults

\* C34: a receive() call that returns Err leaves the instance Active with its
\* descriptor open and its signal set, the dispositions, the table and the
\* queued signals as they were, and receive() can be called again.
C34_ErrRecoverable ==
  [][ReturnsErr =>
       /\ inst' = inst
       /\ inst.phase = "Active"
       /\ inst.fd \in os'.fds
       /\ os'.handler = os.handler /\ os'.blocked = os.blocked
       /\ table' = table
       /\ os' = os
       /\ rpc' = "idle"]_vars

\* A receive() call returned Err and a later one returned a signal.
C34_Witness ==
  \E i \in Recvs(trace), j \in Recvs(trace) :
    i < j /\ trace[i][2] \in ErrResults /\ trace[j][2] \in Signal

\* The phases a value passes through: new() succeeds, new() fails (the value,
\* if one was built, is dropped before the error is returned), the value is
\* dropped.
PhaseMoves ==
  {<<"Uninit", "Active">>, <<"Uninit", "Failed">>, <<"Active", "TornDown">>}

\* The dispositions of the signals of the value self are reverted in the
\* kernel state w.
RevertedIn(w, self) ==
  IF backend = "signalfd" THEN self.sigset \cap w.blocked = {}
  ELSE \A raw \in RawSet(self.signals) : w.handler[raw] = "SIG_DFL"

\* C35: a value moves only from Uninit to Active to TornDown, or from Uninit
\* to Failed; when its drop has run, by the caller or by a new() that failed
\* after the descriptor was acquired, close has been called once on the
\* descriptor and the dispositions are reverted (the calls of drop
\* succeeding); a new() that failed before it acquired a descriptor changes
\* nothing; and once the drop has run no receive, registration or further
\* close happens.
C35_Lifecycle ==
  [][/\ inst'.phase # inst.phase => <<inst.phase, inst'.phase>> \in PhaseMoves
     /\ (~Dropped /\ Dropped') =>
          /\ (Cardinality(Closes(inst.fd)))' = 1
          /\ os'.fds = {}
          /\ RevertedIn(os', inst')
     /\ (inst.phase = "Uninit" /\ inst'.phase = "Failed" /\ inst'.fd = -1)
          => os' = os /\ table' = table
     /\ inst.phase \in {"TornDown", "Failed"} =>
          /\ inst' = inst
          /\ os'.closeLog = os.closeLog /\ os'.fds = os.fds
          /\ trace' = trace /\ last' = last
          /\ calc' = calc /\ os'.regLast = os.regLast /\ os'.registry = os.registry]_vars

\* new() failed after the descriptor was acquired; its drop has reverted
\* the dispositions and closed the descriptor, and a signal was sent since.
C35_Witness ==
  /\ inst.phase = "Failed"
  /\ inst.fd # -1
  /\ Cardinality(Closes(inst.fd)) = 1
  /\ Reverted
  /\ os.terminated

\* A step of register, reregister or deregister.
SourceActs == calc' # calc \/ os'.regLast # os.regLast

\* C22: register, reregister and deregister ask the registry for the same
\* operation on the instance's open descriptor with the token given, return
\* the registry's result, and leave the pending signals, the dispositions,
\* the retained SignalSet and the lifecycle state as they were.
C22_PureForward ==
  [][SourceActs =>
       /\ inst.fd \in os.fds
       /\ os'.regLast = [op |-> calc'.op, fd |-> inst.fd, token |-> calc'.arg[1],
                         res |-> calc'.out]
       /\ [os' EXCEPT !.regLast = os.regLast, !.registry = os.registry] = os
       /\ inst' = inst
       /\ table' = table]_vars

\* A registration the registry refused, with a signal pending.
C22_Witness ==
  /\ inst.phase = "Active"
  /\ calc.op = "register"
  /\ calc.out = "Err"
  /\ os.regLast.fd = inst.fd
  /\ os.pending \cup os.kqEvents # {} \/ os.pipeBuf # <<>>

\* The second iteration of the full set has ended, next() having returned
\* None twice.
C21_Witness ==
  /\ calc.iter.src = SignalSet_all
  /\ calc.iter.before = <<"Interrupt", "Quit", "Terminate">>
  /\ calc.iter.yielded = calc.iter.before
  /\ calc.iter.nones = MaxNones

====
